---- MODULE Spec2Model ----
(***************************************************************************)
(* A model of apispec: the schema-to-model compiler (definitions.py,       *)
(* fields.py), the deferred reference engine (models.py) and the document  *)
(* assembler (contrib/swagger.py, objects.py).                             *)
(*                                                                         *)
(* Python values are records [k |-> kind, v |-> payload].  Dictionaries    *)
(* (instance __dict__, class namespaces, schema mappings) are functions    *)
(* whose domain is the set of keys present.  A raised exception is the     *)
(* field exc of an operator's result; exc = "None" means a normal return.  *)
(* A string that the code splits or prefix-tests (a $ref pointer) is kept  *)
(* as the sequence of its '/'-separated segments.                          *)
(***************************************************************************)
EXTENDS Integers, Sequences, FiniteSets, TLC

VARIABLES
    subclasses, \* DefinitionBase.__subclasses__(): compiled Model Types, in creation order
    refs,       \* every LazyRef created so far: its instance __dict__, by creation index
    REGISTRY,   \* LazyRefMeta.REGISTRY: ids of the LazyRefs waiting for load_refs
    lists,      \* every TypedList created so far: [ref, items]
    insts,      \* model instances: [cls, dict]
    pc,         \* position of the running top-level call
    spec,       \* __dict__ of the SwaggerSpec being / last constructed
    raised,     \* exception that escaped the last top-level call ("None" if it returned)
    log,        \* ids of the references load_refs attempted in the current pass, in order
    loads,      \* number of SwaggerSpec constructions started
    ops,        \* count of the caller's operations on the objects (kept modulo 2
                \* where the run is not bounded by it)
    todo,       \* the definitions the caller has yet to compile
    last        \* the caller's last operation and its outcome

vars == <<subclasses, refs, REGISTRY, lists, insts, pc, spec, raised, log, loads, ops, todo, last>>

----------------------------------------------------------------------------
(* Python values and dictionaries *)

None == [k |-> "None", v |-> 0]
PyBool(b) == [k |-> "bool", v |-> b]
PyInt(n) == [k |-> "int", v |-> n]
\* a float is kept as its number of halves: PyFloat(3) is 1.5
PyFloat(h) == [k |-> "float", v |-> h]
\* a str is the sequence of its characters (a pointer: of its '/'-separated segments)
PyStr(s) == [k |-> "str", v |-> s]
PyTuple(s) == [k |-> "tuple", v |-> s]
\* references to heap objects: a class of subclasses, a LazyRef of refs,
\* a TypedList of lists, a model instance of insts
ClassObj(c) == [k |-> "class", v |-> c]
RefObj(r) == [k |-> "ref", v |-> r]
ListObj(l) == [k |-> "list", v |-> l]
InstObj(i) == [k |-> "inst", v |-> i]
Method(n) == [k |-> "method", v |-> n]

EmptyDict == [x \in {} |-> None]
Put(d, key, val) == [x \in (DOMAIN d) \cup {key} |-> IF x = key THEN val ELSE d[x]]
Remove(d, key) == [x \in (DOMAIN d) \ {key} |-> d[x]]
Get(d, key, dflt) == IF key \in DOMAIN d THEN d[key] ELSE dflt

Last(s) == s[Len(s)]
Front(s) == SubSeq(s, 1, Len(s) - 1)
Range(s) == {s[i] : i \in DOMAIN s}

\* the result of an operator that models a call: the exception raised (or
\* "None"), the value returned, and the heap after the call
Heap(sc, rf, rg, ls, ins) ==
    [subclasses |-> sc, refs |-> rf, REGISTRY |-> rg, lists |-> ls, insts |-> ins]
Ret(e, val, h) == [exc |-> e, ret |-> val, heap |-> h]

----------------------------------------------------------------------------
(* models.py: LazyRef *)

\* str.startswith on the first segment of a pointer
HashSegments == {"#"}
HttpSegments == {"http:", "https:"}
startswith_hash(reference) == Len(reference) > 0 /\ reference[1] \in HashSegments
startswith_http(reference) == Len(reference) > 0 /\ reference[1] \in HttpSegments

\* _local_lookups had it listed the pointer as well
local_lookups_and_reference ==
    {"__dict__", "_proxy_loaded", "__unproxy__", "__object__", "_local_lookups",
     "__proxy_delattr__", "__proxy_setattr__", "__proxy_getattribute__", "reference"}

\* LazyRef._local_lookups (class attribute, used by __setattr__ and __delattr__)
_local_lookups ==
    {"__dict__", "_proxy_loaded", "__unproxy__", "__object__", "_local_lookups",
     "__proxy_delattr__", "__proxy_setattr__", "__proxy_getattribute__"}

\* the tuple local_lookups inside LazyRef.__getattribute__
local_lookups ==
    {"__dict__", "_proxy_loaded", "__unproxy__", "__object__", "_local_lookups",
     "__proxy_delattr__", "__proxy_setattr__", "__proxy_getattribute__", "__str__"}

\* names defined in the body of class LazyRef (found on the type by the
\* default lookup when the instance __dict__ has no such key)
LazyRefClassAttrs ==
    {"KEY", "REQUIRED", "_local_lookups", "__init__", "load", "local_reference",
     "relative_reference", "remote_reference", "_ref_search", "get_definition",
     "get_parameter", "get_response", "__unproxy__", "__getattribute__",
     "__proxy_getattribute__", "__delattr__", "__proxy_delattr__", "__setattr__",
     "__proxy_setattr__", "__str__", "__repr__"}

\* LazyRefMeta.registry_init.register followed by LazyRef.__init__: the new
\* reference is appended to REGISTRY, then its three attributes are set
LazyRef_init(h, reference) ==
    LET id == Len(h.refs) + 1
        d == [x \in {"_proxy_loaded", "reference", "__object__"} |->
                 CASE x = "_proxy_loaded" -> PyBool(FALSE)
                   [] x = "reference" -> PyStr(reference)
                   [] OTHER -> None]
    IN  Ret("None", RefObj(id),
            [h EXCEPT !.refs = Append(h.refs, d),
                      !.REGISTRY = Append(h.REGISTRY, id)])

\* truth value of a Python value, as tested by `if x:`
truthy(x) ==
    CASE x.k = "None" -> FALSE
      [] x.k = "bool" -> x.v
      [] x.k \in {"int", "float"} -> x.v # 0
      [] x.k \in {"str", "tuple"} -> Len(x.v) > 0
      [] OTHER -> TRUE

\* the name -> value part of a result, for lookups that leave the heap alone
Val(e, val) == [exc |-> e, ret |-> val]

\* object.__getattribute__ on a LazyRef: the instance __dict__, then the
\* attributes of the type; __dict__ itself is a data descriptor of the type
object_getattribute(d, name) ==
    CASE name = "__dict__" -> Val("None", [k |-> "dict", v |-> DOMAIN d])
      [] name \in DOMAIN d -> Val("None", d[name])
      [] name \in LazyRefClassAttrs -> Val("None", Method(name))
      [] OTHER -> Val("AttributeError", None)

\* attributes every class object answers through type / object
TypeAttrs == {"__str__", "__dict__", "__init__", "__class__", "__doc__"}

\* getattr(target, name).  A Model Type answers from its namespace (a field
\* descriptor read on the class itself runs Descriptor.__get__(None, owner),
\* which yields the descriptor's default), then from type / object.
target_getattr(h, target, name) ==
    IF target.k = "class"
    THEN LET c == h.subclasses[target.v] IN
         CASE name = "__name__" -> Val("None", PyStr(<<c.name>>))
           [] name \in DOMAIN c.cdict ->
                IF c.cdict[name].k = "descr"
                THEN Val("None", c.cdict[name].v.default)
                ELSE Val("None", c.cdict[name])
           [] name \in TypeAttrs -> Val("None", Method(name))
           [] OTHER -> Val("AttributeError", None)
    ELSE IF name \in {"__str__", "__class__", "__doc__"}
         THEN Val("None", Method(name))
         ELSE Val("AttributeError", None)

\* setattr(target, name, value): type.__setattr__ stores into the class
\* namespace (replacing a descriptor of that name); None / int / ... have no
\* settable attributes
target_setattr(h, target, name, value) ==
    IF target.k = "class"
    THEN Ret("None", None,
             [h EXCEPT !.subclasses[target.v].cdict = Put(@, name, value)])
    ELSE Ret("AttributeError", None, h)

\* delattr(target, name)
target_delattr(h, target, name) ==
    IF target.k = "class" /\ name \in DOMAIN h.subclasses[target.v].cdict
    THEN Ret("None", None,
             [h EXCEPT !.subclasses[target.v].cdict = Remove(@, name)])
    ELSE Ret("AttributeError", None, h)

\* LazyRef.__proxy_getattribute__
LazyRef_proxy_getattribute(h, rid, name) ==
    LET d == h.refs[rid]
        pl == object_getattribute(d, "_proxy_loaded")
        ob == object_getattribute(d, "__object__")
    IN  IF pl.exc # "None" THEN pl
        ELSE IF ~truthy(pl.ret) THEN Val("None", None)
        ELSE IF ob.exc # "None" THEN ob
        ELSE target_getattr(h, ob.ret, name)

\* LazyRef.__getattribute__
LazyRef_getattribute(h, rid, name) ==
    LET d == h.refs[rid]
        pl == object_getattribute(d, "_proxy_loaded")
    IN  IF name \in local_lookups THEN object_getattribute(d, name)
        ELSE IF pl.exc # "None" THEN pl
        ELSE IF ~truthy(pl.ret) THEN object_getattribute(d, name)
        ELSE LazyRef_proxy_getattribute(h, rid, name)

\* the test `name in self._local_lookups or not self._proxy_loaded` shared by
\* __setattr__ and __delattr__: "local", "proxy", or the exception of the
\* failed lookup of _proxy_loaded
LazyRef_route(d, name) ==
    LET pl == object_getattribute(d, "_proxy_loaded") IN
    IF name \in _local_lookups THEN "local"
    ELSE IF pl.exc # "None" THEN pl.exc
    ELSE IF ~truthy(pl.ret) THEN "local"
    ELSE "proxy"

\* LazyRef.__proxy_setattr__ / __proxy_delattr__ reach the target through
\* self.__object__
LazyRef_proxy_setattr(h, rid, name, value) ==
    LET ob == object_getattribute(h.refs[rid], "__object__") IN
    IF ob.exc # "None" THEN Ret(ob.exc, None, h)
    ELSE target_setattr(h, ob.ret, name, value)

LazyRef_proxy_delattr(h, rid, name) ==
    LET ob == object_getattribute(h.refs[rid], "__object__") IN
    IF ob.exc # "None" THEN Ret(ob.exc, None, h)
    ELSE target_delattr(h, ob.ret, name)

\* LazyRef.__setattr__
LazyRef_setattr(h, rid, name, value) ==
    LET route == LazyRef_route(h.refs[rid], name) IN
    CASE route = "local" ->
            Ret("None", None, [h EXCEPT !.refs[rid] = Put(@, name, value)])
      [] route = "proxy" -> LazyRef_proxy_setattr(h, rid, name, value)
      [] OTHER -> Ret(route, None, h)

\* LazyRef.__delattr__
LazyRef_delattr(h, rid, name) ==
    LET route == LazyRef_route(h.refs[rid], name) IN
    CASE route = "local" ->
            IF name \in DOMAIN h.refs[rid]
            THEN Ret("None", None, [h EXCEPT !.refs[rid] = Remove(@, name)])
            ELSE Ret("AttributeError", None, h)
      [] route = "proxy" -> LazyRef_proxy_delattr(h, rid, name)
      [] OTHER -> Ret(route, None, h)

\* LazyRef.__str__ (called through the type by str(), so never proxied):
\* the target's string form once loaded, else '<LazyRef: pointer>'
LazyRef_str(h, rid) ==
    LET d == h.refs[rid]
        pl == object_getattribute(d, "_proxy_loaded")
    IN  IF pl.exc # "None" THEN Val(pl.exc, None)
        ELSE IF truthy(pl.ret)
             THEN LET ob == object_getattribute(d, "__object__") IN
                  IF ob.exc # "None" THEN Val(ob.exc, None)
                  ELSE Val("None", [k |-> "str_of", v |-> ob.ret])
        ELSE LET rf == object_getattribute(d, "reference") IN
             IF rf.exc # "None" THEN Val(rf.exc, None)
             ELSE Val("None", [k |-> "placeholder", v |-> rf.ret])

\* LazyRef._ref_search: the place of the first item of the collection that
\* key accepts, or 0; accepted[i] is key(collection[i])
RECURSIVE _ref_search(_, _)
_ref_search(accepted, i) ==
    IF i > Len(accepted) THEN 0
    ELSE IF accepted[i] THEN i
    ELSE _ref_search(accepted, i + 1)

\* LazyRef.get_definition: the first class of DefinitionBase.__subclasses__()
\* whose __name__ is name
get_definition(h, name) ==
    LET i == _ref_search([j \in DOMAIN h.subclasses |-> h.subclasses[j].name = name], 1)
    IN  IF i = 0 THEN Val("TypeError", None) ELSE Val("None", ClassObj(i))

\* LazyRef.get_parameter / get_response: spec.<section> is read first (spec
\* is None, or the section was never built: AttributeError), then searched
\* by _key
get_section_item(sp, section, kind, name) ==
    IF sp.k # "spec" \/ section \notin DOMAIN sp.v
    THEN Val("AttributeError", None)
    ELSE LET i == _ref_search([j \in DOMAIN sp.v[section] |-> sp.v[section][j]._key = name], 1)
         IN  IF i = 0 THEN Val("TypeError", None)
             ELSE Val("None", [k |-> kind, v |-> sp.v[section][i]._key])

get_parameter(name, sp) == get_section_item(sp, "parameters", "Parameter", name)
get_response(name, sp) == get_section_item(sp, "responses", "Response", name)

\* LazyRef.local_reference: '#/<section>/<name>'.split('/') gives
\* ['#', section, name]; a section other than the three known ones assigns
\* nothing
local_reference(h, rid, reference, sp) ==
    IF Len(reference) < 3 THEN Ret("IndexError", None, h)
    ELSE LET ref_type == reference[2]
             name == reference[3]
             found == CASE ref_type = "definitions" -> get_definition(h, name)
                        [] ref_type = "parameters" -> get_parameter(name, sp)
                        [] ref_type = "responses" -> get_response(name, sp)
                        [] OTHER -> Val("skip", None)
         IN  CASE found.exc = "skip" -> Ret("None", None, h)
               [] found.exc = "None" ->
                    Ret("None", None, [h EXCEPT !.refs[rid] = Put(@, "__object__", found.ret)])
               [] OTHER -> Ret(found.exc, None, h)

\* LazyRef.relative_reference / remote_reference
relative_reference(h) == Ret("NotImplementedError", None, h)
remote_reference(h) == Ret("NotImplementedError", None, h)

\* the tail of LazyRef.load: flag the reference as loaded when a target was
\* stored, and return the target
load_finish(h, rid) ==
    LET ob == object_getattribute(h.refs[rid], "__object__") IN
    IF ob.exc # "None" THEN Ret(ob.exc, None, h)
    ELSE IF ob.ret.k # "None"
         THEN Ret("None", ob.ret,
                  [h EXCEPT !.refs[rid] = Put(@, "_proxy_loaded", PyBool(TRUE))])
         ELSE Ret("None", ob.ret, h)

\* LazyRef.load.  Past the first test the reference is not loaded, so every
\* self.<name> in the body is an ordinary lookup on the reference itself.
LazyRef_load(h, rid, sp) ==
    LET d == h.refs[rid]
        pl == object_getattribute(d, "_proxy_loaded")
        ob == object_getattribute(d, "__object__")
        rf == object_getattribute(d, "reference")
    IN  IF pl.exc # "None" THEN Ret(pl.exc, None, h)
        ELSE IF truthy(pl.ret)
             THEN Ret(ob.exc, ob.ret, h)
        ELSE IF rf.exc # "None" THEN Ret(rf.exc, None, h)
        ELSE IF rf.ret.k # "str" THEN Ret("AttributeError", None, h)
        ELSE LET step == IF startswith_hash(rf.ret.v)
                             THEN local_reference(h, rid, rf.ret.v, sp)
                         ELSE IF startswith_http(rf.ret.v)
                             THEN remote_reference(h)
                         ELSE relative_reference(h)
             IN  IF step.exc # "None" THEN step
                 ELSE load_finish(step.heap, rid)

\* the expression `ref.load(spec)`: the attribute `load` is looked up through
\* __getattribute__ first, and only the LazyRef method can then be run
call_load(h, rid, sp) ==
    LET m == LazyRef_getattribute(h, rid, "load") IN
    IF m.exc # "None" THEN Ret(m.exc, None, h)
    ELSE IF m.ret.k = "method" /\ m.ret.v = "load" THEN LazyRef_load(h, rid, sp)
    ELSE Ret("TypeError", None, h)

----------------------------------------------------------------------------
(* fields.py: descriptors *)

\* a descriptor object: the class it was made from and its attributes; ty is
\* the class attribute ty of that class (Array sets it per object)
Descr(cls, name, default, minimum, maximum, pattern, ty) ==
    [cls |-> cls, name |-> name, default |-> default, minimum |-> minimum,
     maximum |-> maximum, pattern |-> pattern, ty |-> ty]

\* ty() for the builtin types that descriptors and constructors default with
zero_value(ty) ==
    CASE ty = "int" -> PyInt(0)
      [] ty = "float" -> PyFloat(0)
      [] ty = "str" -> PyStr(<<>>)
      [] ty = "bytes" -> [k |-> "bytes", v |-> <<>>]
      [] ty = "bool" -> PyBool(FALSE)
      [] ty = "tuple" -> PyTuple(<<>>)

\* Typed.__init__: a missing default becomes ty()
Typed_default(ty, default) == IF default.k = "None" THEN zero_value(ty) ELSE default

\* isinstance(value, ty) for a builtin ty (bool is a subclass of int)
isinstance(value, ty) ==
    CASE ty = "int" -> value.k \in {"int", "bool"}
      [] ty = "float" -> value.k = "float"
      [] ty = "str" -> value.k = "str"
      [] ty = "bytes" -> value.k = "bytes"
      [] ty = "bool" -> value.k = "bool"
      [] ty = "TypedList" -> value.k = "list"
      [] OTHER -> TRUE

\* a number as a count of halves, so that int and float compare as in Python
Halves(x) ==
    CASE x.k = "float" -> x.v
      [] x.k = "bool" -> IF x.v THEN 2 ELSE 0
      [] OTHER -> 2 * x.v

\* re.compile(pattern).match(value): the pattern is matched from the start
\* of value, token by token; the match need not reach the end of value.
\* Tokens: a literal character, "." (any character), "$" (end of string).
RECURSIVE re_match_at(_, _, _, _)
re_match_at(pattern, i, value, j) ==
    IF i > Len(pattern) THEN TRUE
    ELSE CASE pattern[i] = "$" ->
                j = Len(value) + 1 /\ re_match_at(pattern, i + 1, value, j)
           [] pattern[i] = "." ->
                j <= Len(value) /\ re_match_at(pattern, i + 1, value, j + 1)
           [] OTHER ->
                j <= Len(value) /\ value[j] = pattern[i]
                    /\ re_match_at(pattern, i + 1, value, j + 1)

pattern_match(pattern, value) == re_match_at(pattern, 1, value, 1)

\* Sized.__set__ had it compared with < and >, the bounds themselves allowed
Sized_check_inclusive(D, value) ==
    IF D.minimum.k # "None" /\ Halves(value) < Halves(D.minimum) THEN "ValueError"
    ELSE IF D.maximum.k # "None" /\ Halves(value) > Halves(D.maximum) THEN "ValueError"
    ELSE "None"

\* Sized.__set__ up to the store: the bounds are compared with <= and >=
Sized_check(D, value) ==
    IF D.minimum.k # "None" /\ Halves(value) <= Halves(D.minimum) THEN "ValueError"
    ELSE IF D.maximum.k # "None" /\ Halves(value) >= Halves(D.maximum) THEN "ValueError"
    ELSE "None"

\* Typed.__set__ up to the store
Typed_check(D, value) == IF isinstance(value, D.ty) THEN "None" ELSE "TypeError"

\* Regex.__set__ up to the store: match raises TypeError on a non-string
Regex_check(D, value) ==
    IF value.k # "str" THEN "TypeError"
    ELSE IF ~pattern_match(D.pattern.v, value.v) THEN "ValueError"
    ELSE "None"

\* the checks run by __set__ along the method resolution order of the
\* descriptor's class, for every class but Array: "None" when the value may
\* be stored
scalar_check(D, value) ==
    CASE D.cls \in {"SizedInteger", "SizedFloat"} ->
            IF Typed_check(D, value) # "None" THEN Typed_check(D, value)
            ELSE Sized_check(D, value)
      [] D.cls = "Regex" -> Regex_check(D, value)
      [] OTHER -> Typed_check(D, value)

\* the name of the instance attribute behind a field: '_' + self.name
private(name) == "_" \o name

\* Descriptor.__get__: the instance's private attribute, else the default
Descriptor_get(D, inst) == Get(inst.dict, private(D.name), D.default)

\* Descriptor.__set__: store into the instance's private attribute
Descriptor_set(D, inst, value) == [inst EXCEPT !.dict = Put(@, private(D.name), value)]

\* TypedList.ty: self.ref.__object__.  A LazyRef answers with its own
\* target (None until loaded); a descriptor class has no such attribute.
TypedList_ty(h, L) ==
    IF L.ref.k = "ref" THEN LazyRef_getattribute(h, L.ref.v, "__object__")
    ELSE Val("AttributeError", None)

\* iter(value) as a sequence of items, for the values that are iterable
is_iterable(value) == value.k \in {"tuple", "pylist", "list", "str"}
iter_items(h, value) ==
    CASE value.k = "list" -> h.lists[value.v].items
      [] value.k = "str" -> [i \in 1..Len(value.v) |-> PyStr(<<value.v[i]>>)]
      [] OTHER -> value.v

\* isinstance(x, T) for the T a TypedList holds: T must be a class, and a
\* model instance belongs to the one class it was made from
isinstance_of(h, x, T) == x.k = "inst" /\ h.insts[x.v].cls = T.v

\* the element test of append / insert: raises what self.ty or isinstance
\* raises, else TypeError (raise_) for an element that is not an instance
check_instance(h, T, x) ==
    IF T.exc # "None" THEN T.exc
    ELSE IF T.ret.k # "class" THEN "TypeError"
    ELSE IF ~isinstance_of(h, x, T.ret) THEN "TypeError"
    ELSE "None"
TypedList_check(h, L, x) == check_instance(h, TypedList_ty(h, L), x)

\* an exception, or the value of the rest of the method
raise_or(e, h, ok) == IF e # "None" THEN Ret(e, None, h) ELSE ok

\* what the element test of each item raises, and the first of them in
\* the order of iteration
item_checks(h, L, items) == [i \in DOMAIN items |-> TypedList_check(h, L, items[i])]
first_raised(es) ==
    IF \A i \in DOMAIN es : es[i] = "None" THEN "None"
    ELSE es[CHOOSE i \in DOMAIN es : es[i] # "None" /\ \A j \in 1..(i - 1) : es[j] = "None"]

\* TypedList.__init__(ref, iterable) up to list.__init__: every item is
\* tested before any is stored
TypedList_check_all(h, L, value) ==
    IF ~is_iterable(value) THEN "TypeError"
    ELSE first_raised(item_checks(h, L, iter_items(h, value)))

\* TypedList.append
TypedList_append(h, lid, p_object) ==
    raise_or(TypedList_check(h, h.lists[lid], p_object), h,
             Ret("None", None, [h EXCEPT !.lists[lid].items = Append(@, p_object)]))

\* list.insert places the item before position index (0-based), clamped to
\* the ends; a negative index counts from the end
insert_at(items, index, x) ==
    LET n == Len(items)
        at == IF index < 0 THEN (IF n + index < 0 THEN 0 ELSE n + index)
              ELSE IF index > n THEN n ELSE index
    IN  SubSeq(items, 1, at) \o <<x>> \o SubSeq(items, at + 1, n)

\* TypedList.insert
TypedList_insert(h, lid, index, p_object) ==
    raise_or(TypedList_check(h, h.lists[lid], p_object), h,
             Ret("None", None, [h EXCEPT !.lists[lid].items = insert_at(@, index, p_object)]))

\* TypedList.extend had it appended the items one by one: those before the
\* first rejected item stay in the list
TypedList_extend_each(h, lid, value) ==
    IF ~is_iterable(value) THEN Ret("TypeError", None, h)
    ELSE LET items == iter_items(h, value)
             es == item_checks(h, h.lists[lid], items)
             ok == {i \in DOMAIN es : \A j \in 1..i : es[j] = "None"}
         IN  Ret(first_raised(es), None,
                 [h EXCEPT !.lists[lid].items = @ \o SubSeq(items, 1, Cardinality(ok))])

\* TypedList.extend: a second TypedList is built from the iterable (which
\* tests every item) and only then appended to this one
TypedList_extend(h, lid, value) ==
    raise_or(TypedList_check_all(h, h.lists[lid], value), h,
             Ret("None", None, [h EXCEPT !.lists[lid].items = @ \o iter_items(h, value)]))

\* Array.descriptor_by_name: Descriptor.__subclasses__() is [Typed, Sized,
\* Regex]; Typed.ty is object, and Sized has no attribute ty at all
descriptor_by_name(name) ==
    IF name = "object" THEN Val("None", [k |-> "descriptor_class", v |-> "Typed"])
    ELSE Val("AttributeError", None)

\* Array.__init__: one TypedList per descriptor, made when the descriptor is
\* made, serves as the default; ty is TypedList
Array_init(h, name, items) ==
    LET mk(h1, ref) ==
            Ret("None",
                Descr("Array", name, ListObj(Len(h1.lists) + 1), None, None, None, "TypedList"),
                [h1 EXCEPT !.lists = Append(@, [ref |-> ref, items |-> <<>>])])
    IN  IF "$ref" \in DOMAIN items
        THEN LET r == LazyRef_init(h, items["$ref"]) IN mk(r.heap, r.ret)
        ELSE IF "type" \notin DOMAIN items THEN Ret("KeyError", None, h)
        ELSE LET d == descriptor_by_name(items["type"]) IN
             IF d.exc # "None" THEN Ret(d.exc, None, h) ELSE mk(h, d.ret)

\* Array.__set__: the list already behind the field (the descriptor's
\* default when the instance has none) is extended with value, then stored
\* through Typed.__set__
store_extended(r, D, iid, val) ==
    IF r.exc # "None" THEN r
    ELSE Ret("None", None, [r.heap EXCEPT !.insts[iid] = Descriptor_set(D, @, val)])
Array_set(h, D, iid, value) ==
    LET val == Descriptor_get(D, h.insts[iid]) IN
    IF val.k # "list" THEN Ret("AttributeError", None, h)
    ELSE store_extended(TypedList_extend(h, val.v, value), D, iid, val)

\* descriptor.__set__(instance, value) for any descriptor class
field_set(h, D, iid, value) ==
    IF D.cls = "Array" THEN Array_set(h, D, iid, value)
    ELSE LET e == scalar_check(D, value) IN
         IF e # "None" THEN Ret(e, None, h)
         ELSE Ret("None", None, [h EXCEPT !.insts[iid] = Descriptor_set(D, @, value)])

----------------------------------------------------------------------------
(* definitions.py: the model compiler *)

\* A schema (the clsdict given to DefinitionMeta.__new__) is a dictionary
\* with the key "properties": a sequence of [name, field] in declaration
\* order, each field a dictionary over the keys type, required, minimum,
\* maximum, pattern, enum, items, format, default.

\* the argument of the TypeError of type_from_name:
\* 'Encountered Unsupported Type: <name>'
UnsupportedType(name) == [k |-> "message", v |-> name]

\* (a mapping that takes every other name for a string type)
type_from_name_lenient(name) ==
    CASE name \in {"integer", "long"} -> Val("None", "int")
      [] name \in {"float", "double"} -> Val("None", "float")
      [] name = "boolean" -> Val("None", "bool")
      [] name = "array" -> Val("None", "tuple")
      [] OTHER -> Val("None", "str")

\* DefinitionMeta.type_from_name
type_from_name(name) ==
    CASE name \in {"integer", "long"} -> Val("None", "int")
      [] name \in {"float", "double"} -> Val("None", "float")
      [] name \in {"string", "byte", "binary"} -> Val("None", "str")
      [] name = "boolean" -> Val("None", "bool")
      [] name = "array" -> Val("None", "tuple")
      [] OTHER -> Val("TypeError", UnsupportedType(name))

is_required(field) == "required" \in DOMAIN field /\ field["required"]

\* (the names of the required properties, last declared first)
required_names_reversed(properties) ==
    LET req == SelectSeq(properties, LAMBDA p : is_required(p.field)) IN
    [i \in 1..Len(req) |-> req[Len(req) + 1 - i].name]

\* `args` of DefinitionMeta.__new__: the names of the required properties
RECURSIVE required_names(_)
required_names(properties) ==
    IF properties = <<>> THEN <<>>
    ELSE (IF is_required(Head(properties).field) THEN <<Head(properties).name>> ELSE <<>>)
             \o required_names(Tail(properties))

\* `kwargs` of DefinitionMeta.__new__: [name, typ] of the optional
\* properties, typ = type_from_name(field.get('type')); the first
\* unsupported type name raises
RECURSIVE optional_types(_)
optional_types(properties) ==
    IF properties = <<>> THEN Val("None", <<>>)
    ELSE LET p == Head(properties)
             rest == optional_types(Tail(properties))
         IN  IF is_required(p.field) THEN rest
             ELSE LET t == type_from_name(Get(p.field, "type", "None")) IN
                  IF t.exc # "None" THEN t
                  ELSE IF rest.exc # "None" THEN rest
                  ELSE Val("None", <<[name |-> p.name, typ |-> t.ret]>> \o rest.ret)

\* DefinitionMeta.int_field / float_field
sized_field(cls, ty, name, field) ==
    IF "minimum" \in DOMAIN field \/ "maximum" \in DOMAIN field
    THEN Descr("Sized" \o cls, name, Typed_default(ty, Get(field, "default", None)),
               Get(field, "minimum", None), Get(field, "maximum", None), None, ty)
    ELSE Descr(cls, name, Typed_default(ty, Get(field, "default", None)),
               None, None, None, ty)

int_field(name, field) == sized_field("Integer", "int", name, field)
float_field(name, field) == sized_field("Float", "float", name, field)

\* DefinitionMeta.byte_field / bool_field
byte_field(name, field) ==
    Descr("Bytes", name, Typed_default("bytes", Get(field, "default", None)),
          None, None, None, "bytes")
bool_field(name, field) ==
    Descr("Boolean", name, Typed_default("bool", Get(field, "default", None)),
          None, None, None, "bool")

\* DefinitionMeta.string_field.  Regex derives from Descriptor, not Typed:
\* its default stays what the schema gave (None when absent) and it has no ty.
string_field(name, field) ==
    LET format_ == Get(field, "format", "None") IN
    IF format_ \in {"byte", "binary"} THEN byte_field(name, field)
    ELSE IF "pattern" \in DOMAIN field
         THEN Descr("Regex", name, Get(field, "default", None), None, None,
                    [k |-> "re", v |-> field["pattern"]], "object")
    ELSE Descr("String", name, Typed_default("str", Get(field, "default", None)),
               None, None, None, "str")

\* DefinitionMeta.array_field
array_field(h, name, field) ==
    IF "items" \notin DOMAIN field THEN Ret("KeyError", None, h)
    ELSE Array_init(h, name, field["items"])

\* DefinitionMeta.oneof_field: the name Oneof is bound neither in
\* definitions.py nor by `from .fields import *` (fields.py defines no such
\* class), so evaluating the call raises NameError
oneof_field(h, name, field) == Ret("NameError", None, h)

\* the body of the loop over fields in DefinitionMeta.__new__: the
\* descriptor for one field
make_descriptor(h, field_name, field) ==
    IF "enum" \in DOMAIN field THEN oneof_field(h, field_name, field)
    ELSE IF "type" \notin DOMAIN field THEN Ret("KeyError", None, h)
    ELSE LET typ == type_from_name(field["type"]) IN
         CASE typ.exc # "None" -> Ret(typ.exc, typ.ret, h)
           [] typ.ret = "int" -> Ret("None", int_field(field_name, field), h)
           [] typ.ret = "float" -> Ret("None", float_field(field_name, field), h)
           [] typ.ret = "str" -> Ret("None", string_field(field_name, field), h)
           [] typ.ret = "bool" -> Ret("None", bool_field(field_name, field), h)
           [] OTHER -> array_field(h, field_name, field)

field_of(properties, name) ==
    properties[CHOOSE i \in DOMAIN properties : properties[i].name = name].field

\* the loop over fields in DefinitionMeta.__new__: each descriptor is set
\* into the class namespace as soon as it is made
RECURSIVE install_fields(_, _, _, _, _)
install_fields(h, cid, properties, fields, i) ==
    IF i > Len(fields) THEN Ret("None", ClassObj(cid), h)
    ELSE LET r == make_descriptor(h, fields[i], field_of(properties, fields[i])) IN
         IF r.exc # "None" THEN Ret(r.exc, r.ret, r.heap)
         ELSE install_fields(
                  [r.heap EXCEPT !.subclasses[cid].cdict =
                       Put(@, fields[i], [k |-> "descr", v |-> r.ret])],
                  cid, properties, fields, i + 1)

\* DefinitionMeta.__new__ (reached through generate_defintion_class, with
\* DefinitionBase as the only base).  The class object exists, and is listed
\* by DefinitionBase.__subclasses__(), from the call of type.__new__ on.
DefinitionMeta_new(h, clsname, clsdict) ==
    LET properties == Get(clsdict, "properties", <<>>)
        args == required_names(properties)
        kwargs == optional_types(properties)
    IN  IF kwargs.exc # "None" THEN Ret(kwargs.exc, kwargs.ret, h)
        ELSE
        LET fields == args \o [i \in 1..Len(kwargs.ret) |-> kwargs.ret[i].name]
            names == {properties[i].name : i \in DOMAIN properties}
                        \cup (IF fields # <<>> THEN {"__init__"} ELSE {})
                        \cup (IF "examples" \in DOMAIN clsdict THEN {"generate_examples"} ELSE {})
                        \cup {"__attrs__"}
            cdict == [n \in names |->
                        CASE n = "__attrs__" -> [k |-> "attrs", v |-> fields]
                          [] n \in {"__init__", "generate_examples"} -> Method(n)
                          [] OTHER -> [k |-> "raw", v |-> n]]
            clsobj == [name |-> clsname, attrs |-> fields, args |-> args,
                       kwargs |-> kwargs.ret, cdict |-> cdict,
                       examples |-> Get(clsdict, "examples", <<>>)]
            cid == Len(h.subclasses) + 1
        IN  install_fields([h EXCEPT !.subclasses = Append(@, clsobj)],
                           cid, properties, fields, 1)

\* generate_defintion_class
generate_defintion_class(h, name, kwargs) == DefinitionMeta_new(h, name, kwargs)

\* object.__setattr__ on a model instance (`inst.name = value`): a field
\* descriptor in the class namespace takes the assignment, any other name
\* goes to the instance __dict__
instance_setattr(h, iid, name, value) ==
    LET cdict == h.subclasses[h.insts[iid].cls].cdict IN
    IF name \in DOMAIN cdict /\ cdict[name].k = "descr"
    THEN field_set(h, cdict[name].v, iid, value)
    ELSE Ret("None", None, [h EXCEPT !.insts[iid].dict = Put(@, name, value)])

\* `inst.name`: a field descriptor answers with Descriptor.__get__; else the
\* instance __dict__, else the class namespace
instance_getattr(h, iid, name) ==
    LET inst == h.insts[iid]
        cdict == h.subclasses[inst.cls].cdict
    IN  CASE name \in DOMAIN cdict /\ cdict[name].k = "descr" ->
                Val("None", Descriptor_get(cdict[name].v, inst))
          [] name \in DOMAIN inst.dict -> Val("None", inst.dict[name])
          [] name \in DOMAIN cdict -> Val("None", cdict[name])
          [] OTHER -> Val("AttributeError", None)

\* the body generated by _make_init: `self.<name> = <name>` for the required
\* fields, then the optional ones, stopping at the first that raises
RECURSIVE init_body(_, _, _, _, _)
\* (a body that goes on to the next field whatever the assignment did)
init_next_skip(r, iid, fields, values, i) ==
    init_body(r.heap, iid, fields, values, i + 1)
init_next(r, iid, fields, values, i) ==
    IF r.exc # "None" THEN r ELSE init_body(r.heap, iid, fields, values, i + 1)
init_body(h, iid, fields, values, i) ==
    IF i > Len(fields) THEN Ret("None", InstObj(iid), h)
    ELSE init_next(instance_setattr(h, iid, fields[i], values[i]), iid, fields, values, i)

\* the parameter list generated by _make_init bound to a call: the required
\* fields are positional parameters without default, each optional field
\* defaults to <typ>(); pos are the positional arguments, kw the keyword ones
bind_ok(c, pos, kw) ==
    /\ Len(pos) <= Len(c.attrs)
    /\ \A n \in DOMAIN kw : \E i \in DOMAIN c.attrs : c.attrs[i] = n /\ i > Len(pos)
    /\ \A i \in DOMAIN c.args : i <= Len(pos) \/ c.args[i] \in DOMAIN kw

bound_values(c, pos, kw) ==
    [i \in DOMAIN c.attrs |->
        IF i <= Len(pos) THEN pos[i]
        ELSE IF c.attrs[i] \in DOMAIN kw THEN kw[c.attrs[i]]
        ELSE zero_value(c.kwargs[i - Len(c.args)].typ)]

\* calling a Model Type: object.__new__, then the generated __init__ (a
\* class compiled without fields has none and takes no argument).  When
\* __init__ raises, the caller gets no instance.
init_result(r) ==
    IF r.exc # "None" THEN Ret(r.exc, None, [r.heap EXCEPT !.insts = Front(@)]) ELSE r
Model_call(h, cid, pos, kw) ==
    LET c == h.subclasses[cid]
        iid == Len(h.insts) + 1
        h1 == [h EXCEPT !.insts = Append(@, [cls |-> cid, dict |-> EmptyDict])]
    IN  IF c.attrs = <<>>
        THEN IF pos = <<>> /\ DOMAIN kw = {} THEN Ret("None", InstObj(iid), h1)
             ELSE Ret("TypeError", None, h)
        ELSE IF ~bind_ok(c, pos, kw) THEN Ret("TypeError", None, h)
        ELSE init_result(init_body(h1, iid, c.attrs, bound_values(c, pos, kw), 1))

\* generate_examples, the classmethod made by _generate_example_generator
\* for a schema with an 'examples' key: `[cls(**ex) for ex in examples]`.
\* A class compiled without examples has no such attribute.  When an
\* example raises, the instances built so far are dropped with the list.
RECURSIVE examples_from(_, _, _, _, _)
examples_next(r, cid, examples, i, acc) ==
    IF r.exc # "None"
    THEN Ret(r.exc, None,
             [r.heap EXCEPT !.insts = SubSeq(@, 1, Len(@) - Len(acc))])
    ELSE examples_from(r.heap, cid, examples, i + 1, Append(acc, r.ret))
examples_from(h, cid, examples, i, acc) ==
    IF i > Len(examples) THEN Ret("None", [k |-> "pylist", v |-> acc], h)
    ELSE examples_next(Model_call(h, cid, <<>>, examples[i]), cid, examples, i, acc)
\* (a generator that builds the examples last first)
generate_examples_reversed(h, cid) ==
    LET examples == h.subclasses[cid].examples IN
    examples_from(h, cid, [i \in DOMAIN examples |-> examples[Len(examples) + 1 - i]],
                  1, <<>>)
generate_examples(h, cid) ==
    IF "generate_examples" \notin DOMAIN h.subclasses[cid].cdict
    THEN Ret("AttributeError", None, h)
    ELSE examples_from(h, cid, h.subclasses[cid].examples, 1, <<>>)

----------------------------------------------------------------------------
(* objects.py, contrib/swagger.py: building the document tree *)

\* A document (what the loader returns) is a dictionary over the keys
\* definitions (a sequence of [name, schema]), parameters (a sequence of
\* keys, the mapping form of the section) and responses (a sequence of
\* [key, ref]: ref is the pointer of the response's schema.$ref, or <<>>
\* when the response has no schema).

\* Definitions.__init__: one generate_defintion_class per entry, in order
RECURSIVE Definitions_init(_, _, _, _)
Definitions_next(r, defs, i, acc) ==
    IF r.exc # "None" THEN Ret(r.exc, None, r.heap)
    ELSE Definitions_init(r.heap, defs, i + 1,
                          Append(acc, [_key |-> defs[i].name, value |-> r.ret]))
Definitions_init(h, defs, i, acc) ==
    IF i > Len(defs) THEN Ret("None", acc, h)
    ELSE Definitions_next(generate_defintion_class(h, defs[i].name, defs[i].schema),
                          defs, i, acc)

\* Parameters.__init__ given the mapping form: one Parameter per key
Parameters_init(keys) == [i \in DOMAIN keys |-> [_key |-> keys[i], value |-> None]]

\* Responses.__init__: one Response per key; building a Response builds its
\* Schema, whose $ref attribute is made by LazyRef(pointer)
RECURSIVE Responses_init(_, _, _, _)
Responses_init(h, resps, i, acc) ==
    IF i > Len(resps) THEN Ret("None", acc, h)
    ELSE IF resps[i].ref = <<>>
         THEN Responses_init(h, resps, i + 1,
                             Append(acc, [_key |-> resps[i].key, value |-> None]))
    ELSE LET r == LazyRef_init(h, resps[i].ref) IN
         Responses_init(r.heap, resps, i + 1,
                        Append(acc, [_key |-> resps[i].key, value |-> r.ret]))

\* SpecObjectBase.build for SwaggerSpec: the declared attributes are built
\* in the order of SwaggerSpec.__attrs__ (Definitions, ..., Parameters,
\* Paths, Responses, ...); an absent optional key leaves its attribute unset
build_responses(r3, d2) ==
    Ret("None", IF r3.exc = "None" THEN Put(d2, "responses", r3.ret) ELSE d2, r3.heap)
build_rest(r1, d, doc) ==
    LET d1 == IF r1.exc = "None" THEN Put(d, "definitions", r1.ret) ELSE d
        d2 == IF "parameters" \in DOMAIN doc
              THEN Put(d1, "parameters", Parameters_init(doc["parameters"]))
              ELSE d1
    IN  IF r1.exc \notin {"None", "skip"} THEN Ret(r1.exc, d, r1.heap)
        ELSE build_responses(IF "responses" \in DOMAIN doc
                             THEN Responses_init(r1.heap, doc["responses"], 1, <<>>)
                             ELSE Ret("skip", None, r1.heap),
                             d2)
SwaggerSpec_build(h, d, doc) ==
    build_rest(IF "definitions" \in DOMAIN doc
               THEN Definitions_init(h, doc["definitions"], 1, <<>>)
               ELSE Ret("skip", None, h),
               d, doc)

\* SwaggerSpec.__attrs__: a list of attribute classes
SwaggerSpec_attrs ==
    [i \in 1..14 |->
        [k |-> "class",
         v |-> <<"Definitions", "Documentation", "Info", "Parameters", "Paths",
                 "Responses", "SecurityDefinitions", "SecurityRequirements",
                 "Host", "BasePath", "Schemes", "Consumes", "Produces", "Tags">>[i]]]

\* the tuple assignment `key, typ = x`: x must be an iterable of two items,
\* and a class object is not iterable
unpack_pair(x) ==
    IF x.k = "tuple" /\ Len(x.v) = 2 THEN Val("None", x.v) ELSE Val("TypeError", None)

\* dict.update on mappings kept as sequences of [_key, value]: the entries of
\* other replace those of the same key and the new keys are added
dict_update(own, other) ==
    LET keys(m) == {m[i]._key : i \in DOMAIN m} IN
    SelectSeq(own, LAMBDA e : e._key \notin keys(other)) \o other

\* the body of the loop of SwaggerSpec.merge for one (key, typ)
merge_one(d, data, key, typ) ==
    IF key \notin DOMAIN d THEN Val("KeyError", d)
    ELSE IF typ = "dict" THEN Val("None", [d EXCEPT ![key] = dict_update(@, Get(data, key, <<>>))])
    ELSE Val("None", [d EXCEPT ![key] = @ \o Get(data, key, <<>>)])

\* SwaggerSpec.merge: every element of __attrs__ is unpacked as (key, typ)
RECURSIVE SwaggerSpec_merge(_, _, _, _)
SwaggerSpec_merge(d, data, attrs, i) ==
    IF i > Len(attrs) THEN Val("None", d)
    ELSE LET kt == unpack_pair(attrs[i]) IN
         IF kt.exc # "None" THEN Val(kt.exc, d)
         ELSE LET r == merge_one(d, data, kt.ret[1], kt.ret[2]) IN
              IF r.exc # "None" THEN r
              ELSE SwaggerSpec_merge(r.ret, data, attrs, i + 1)

----------------------------------------------------------------------------
(* the documents and schemas the model is run on *)

Dict1(k1, v1) == Put(EmptyDict, k1, v1)
Dict2(k1, v1, k2, v2) == Put(Dict1(k1, v1), k2, v2)
Dict3(k1, v1, k2, v2, k3, v3) == Put(Dict2(k1, v1, k2, v2), k3, v3)
Prop(name, field) == [name |-> name, field |-> field]
Schema(properties) == Dict1("properties", properties)

P_Set == <<"#", "definitions", "Set">>
P_Missing == <<"#", "definitions", "DoesNotExist">>
P_Param == <<"#", "parameters", "p">>
P_Resp == <<"#", "responses", "r1">>
P_Unknown == <<"#", "widgets", "W">>
P_Remote == <<"http:", "", "example.com", "spec.yaml">>
P_Relative == <<"other.yaml">>

\* the models of the specification's scenarios
SetSchema ==
    Schema(<<Prop("reps", Dict2("type", "integer", "required", TRUE)),
             Prop("weight", Dict2("type", "integer", "minimum", PyInt(0)))>>)
ExerciseSchema ==
    Schema(<<Prop("sets", Dict2("type", "array", "items", Dict1("$ref", P_Set)))>>)

Def(name, schema) == [name |-> name, schema |-> schema]
Resp(key, ref) == [key |-> key, ref |-> ref]

DefinitionSections ==
    {<<Def("Set", SetSchema)>>,
     <<Def("Set", SetSchema), Def("Exercise", ExerciseSchema)>>,
     <<Def("Exercise", ExerciseSchema), Def("Set", SetSchema)>>}

ResponseSections ==
    {<<Resp("r1", <<>>)>>,
     <<Resp("r1", P_Set)>>,
     <<Resp("r1", P_Missing)>>,
     <<Resp("r1", P_Set), Resp("r2", P_Remote)>>,
     <<Resp("r1", P_Relative), Resp("r2", P_Set)>>,
     <<Resp("r1", P_Param), Resp("r2", P_Resp)>>,
     <<Resp("r1", P_Unknown), Resp("r2", P_Missing)>>}

\* the documents a load is given: with and without a parameters section
Docs ==
    {Dict2("definitions", ds, "responses", rs) :
        ds \in DefinitionSections, rs \in ResponseSections}
    \cup {Dict3("definitions", <<Def("Set", SetSchema)>>, "parameters", <<"p">>,
                "responses", <<Resp("r1", P_Param), Resp("r2", P_Resp)>>)}

\* most SwaggerSpec constructions in one process
MaxLoads == 2

----------------------------------------------------------------------------
(* the document assembler as a state machine *)

HeapNow == Heap(subclasses, refs, REGISTRY, lists, insts)
SetHeap(h) ==
    /\ subclasses' = h.subclasses
    /\ refs' = h.refs
    /\ REGISTRY' = h.REGISTRY
    /\ lists' = h.lists
    /\ insts' = h.insts

NoOp == [op |-> "none", exc |-> "None"]

Init ==
    /\ subclasses = <<>>
    /\ refs = <<>>
    /\ REGISTRY = <<>>
    /\ lists = <<>>
    /\ insts = <<>>
    /\ pc = "idle"
    /\ spec = EmptyDict
    /\ raised = "None"
    /\ log = <<>>
    /\ loads = 0
    /\ ops = 0
    /\ todo = <<>>
    /\ last = NoOp

\* the tree that build returned, or the exception it raised
built(r) ==
    /\ SetHeap(r.heap)
    /\ spec' = r.ret
    /\ raised' = r.exc
    /\ pc' = IF r.exc = "None" THEN "load_refs" ELSE "init_raised"

\* SwaggerSpec.__init__ up to the call of load_refs: the loader's document
\* is built into the tree; an exception of the build ends the construction
SwaggerSpec_init(doc) ==
    /\ pc \in {"idle", "done", "raised", "init_raised"}
    /\ loads < MaxLoads
    /\ built(SwaggerSpec_build(HeapNow, Dict1("_spec", doc), doc))
    /\ log' = <<>>
    /\ loads' = loads + 1
    /\ last' = NoOp
    /\ UNCHANGED <<ops, todo>>

\* one turn of the loop of SpecObjectBase.load_refs: the last registered
\* reference is popped, logged with str() and loaded; only AttributeError is
\* caught, any other exception leaves load_refs and SwaggerSpec.__init__
load_refs_iter ==
    /\ pc = "load_refs"
    /\ REGISTRY # <<>>
    /\ LET unloaded_ref == Last(REGISTRY)
           h == [HeapNow EXCEPT !.REGISTRY = Front(@)]
           st == LazyRef_str(h, unloaded_ref)
           r == IF st.exc # "None" THEN Ret(st.exc, None, h)
                ELSE call_load(h, unloaded_ref, [k |-> "spec", v |-> spec])
       IN  /\ SetHeap(r.heap)
           /\ log' = Append(log, unloaded_ref)
           /\ IF r.exc \in {"None", "AttributeError"}
              THEN pc' = "load_refs" /\ raised' = "None"
              ELSE pc' = "raised" /\ raised' = r.exc
    /\ UNCHANGED <<spec, loads, ops, todo, last>>

\* the loop of load_refs ends when the registry is empty; SwaggerSpec.__init__
\* then returns
load_refs_exit ==
    /\ pc = "load_refs"
    /\ REGISTRY = <<>>
    /\ pc' = "done"
    /\ raised' = "None"
    /\ UNCHANGED <<subclasses, refs, REGISTRY, lists, insts, spec, log, loads, ops, todo, last>>

\* a caller's own call of SpecObjectBase.load_refs(spec), outside a
\* SwaggerSpec construction
load_refs_start ==
    /\ pc \in {"idle", "done", "raised"}
    /\ REGISTRY # <<>>
    /\ pc' = "load_refs"
    /\ raised' = "None"
    /\ log' = <<>>
    /\ UNCHANGED <<subclasses, refs, REGISTRY, lists, insts, spec, loads, ops, todo, last>>

\* SwaggerSpec.merge(include) on a constructed specification
merge(data) ==
    /\ pc = "done"
    /\ LET r == SwaggerSpec_merge(spec, data, SwaggerSpec_attrs, 1) IN
       /\ spec' = r.ret
       /\ last' = [op |-> "merge", data |-> data, exc |-> r.exc]
    /\ UNCHANGED <<subclasses, refs, REGISTRY, lists, insts, pc, raised, log, loads, ops, todo>>

Next ==
    \/ \E doc \in Docs : SwaggerSpec_init(doc)
    \/ load_refs_iter
    \/ load_refs_exit
    \/ \E data \in Docs : merge(data)

Spec == Init /\ [][Next]_vars

----------------------------------------------------------------------------
(* a caller using references directly: models compiled with
   generate_defintion_class, references loaded by hand or by load_refs, and
   attribute access on the references *)

\* most operations the caller runs
MaxOps == 2

\* the names the caller reads, writes and deletes on a reference, and the
\* values it writes
AttrNames == {"reference", "_proxy_loaded", "__object__", "__str__", "reps", "title"}
AttrValues == {PyBool(TRUE), None}

\* the pointers of the reference the caller creates
CallerPointers == {P_Set, P_Missing}

EmptyHeap == Heap(<<>>, <<>>, <<>>, <<>>, <<>>)
CompiledHeap ==
    generate_defintion_class(
        generate_defintion_class(EmptyHeap, "Set", SetSchema).heap,
        "Exercise", ExerciseSchema).heap

\* did `if self._proxy_loaded` succeed on the reference in this heap
is_loaded(h, rid) ==
    LET pl == object_getattribute(h.refs[rid], "_proxy_loaded") IN
    pl.exc = "None" /\ truthy(pl.ret)

InitProxy ==
    /\ \E p \in CallerPointers :
          LET h == LazyRef_init(CompiledHeap, p).heap IN
          /\ subclasses = h.subclasses
          /\ refs = h.refs
          /\ REGISTRY = h.REGISTRY
          /\ lists = h.lists
          /\ insts = h.insts
    /\ pc = "idle"
    /\ spec = EmptyDict
    /\ raised = "None"
    /\ log = <<>>
    /\ loads = 0
    /\ ops = 0
    /\ todo = <<>>
    /\ last = NoOp

\* the record kept of an operation on reference rid
Op(op, rid, name, value, r) ==
    [op |-> op, rid |-> rid, name |-> name, value |-> value,
     exc |-> r.exc, ret |-> r.ret, loaded |-> is_loaded(HeapNow, rid)]

\* `ref.load()`
Load(rid) ==
    /\ pc # "load_refs"
    /\ ops < MaxOps
    /\ LET r == call_load(HeapNow, rid, None) IN
       /\ SetHeap(r.heap)
       /\ last' = Op("load", rid, "load", None, r)
    /\ ops' = ops + 1
    /\ UNCHANGED <<pc, spec, raised, log, loads, todo>>

\* `ref.<name>`
GetAttr(rid, name) ==
    /\ pc # "load_refs"
    /\ ops < MaxOps
    /\ last' = Op("get", rid, name, None, LazyRef_getattribute(HeapNow, rid, name))
    /\ ops' = ops + 1
    /\ UNCHANGED <<subclasses, refs, REGISTRY, lists, insts, pc, spec, raised, log, loads, todo>>

\* `ref.<name> = value`
SetAttr(rid, name, value) ==
    /\ pc # "load_refs"
    /\ ops < MaxOps
    /\ LET r == LazyRef_setattr(HeapNow, rid, name, value) IN
       /\ SetHeap(r.heap)
       /\ last' = Op("set", rid, name, value, r)
    /\ ops' = ops + 1
    /\ UNCHANGED <<pc, spec, raised, log, loads, todo>>

\* `del ref.<name>`
DelAttr(rid, name) ==
    /\ pc # "load_refs"
    /\ ops < MaxOps
    /\ LET r == LazyRef_delattr(HeapNow, rid, name) IN
       /\ SetHeap(r.heap)
       /\ last' = Op("del", rid, name, None, r)
    /\ ops' = ops + 1
    /\ UNCHANGED <<pc, spec, raised, log, loads, todo>>

NextProxy ==
    \/ load_refs_start
    \/ load_refs_iter
    \/ load_refs_exit
    \/ \E rid \in DOMAIN refs : Load(rid)
    \/ \E rid \in DOMAIN refs, name \in AttrNames : GetAttr(rid, name)
    \/ \E rid \in DOMAIN refs, name \in AttrNames : DelAttr(rid, name)
    \/ \E rid \in DOMAIN refs, name \in AttrNames, value \in AttrValues :
          SetAttr(rid, name, value)

SpecProxy == InitProxy /\ [][NextProxy]_vars

----------------------------------------------------------------------------
(* a caller using the compiler directly: definitions compiled one by one
   with generate_defintion_class, references loaded, instances constructed,
   fields assigned and the lists behind array fields mutated *)

\* most calls the caller makes on Model Types, instances and lists; most
\* model instances alive at once; most items in one TypedList
MaxCalls == 3
MaxInsts == 2
MaxLen == 3

\* one model with one required numeric field n, for a declared type and
\* each choice of bounds
Bounds ==
    {b \in [minimum : {None, PyInt(0), PyFloat(1)}, maximum : {None, PyInt(2)}] :
        b.minimum.k # "None" \/ b.maximum.k # "None"}
NumField(type, b) ==
    LET f0 == Dict2("type", type, "required", TRUE)
        f1 == IF b.minimum.k # "None" THEN Put(f0, "minimum", b.minimum) ELSE f0
    IN  IF b.maximum.k # "None" THEN Put(f1, "maximum", b.maximum) ELSE f1
NumSchema(type, b) == Schema(<<Prop("n", NumField(type, b))>>)

\* one model with one required pattern-checked string field
Patterns == {<<"a", "b">>, <<"a", "b", "$">>, <<"a", ".">>}
PatternSchema(pattern) ==
    Schema(<<Prop("code", Dict3("type", "string", "required", TRUE, "pattern", pattern))>>)

\* one model with an enum field
EnumMembers == <<PyStr(<<"a", "b">>), PyStr(<<"a", "c">>)>>
EnumSchema ==
    Schema(<<Prop("c", Dict3("type", "string", "required", TRUE, "enum", EnumMembers))>>)

\* one model with plainly typed fields
PlainSchema ==
    Schema(<<Prop("s", Dict2("type", "string", "required", TRUE)),
             Prop("flag", Dict1("type", "boolean"))>>)

\* one model holding an array of its own kind
P_Node == <<"#", "definitions", "Node">>
NodeSchema ==
    Schema(<<Prop("children", Dict2("type", "array", "items", Dict1("$ref", P_Node)))>>)

\* one model whose properties are declared optional, required, optional,
\* required
MixedSchema ==
    Schema(<<Prop("a", Dict1("type", "integer")),
             Prop("b", Dict2("type", "string", "required", TRUE)),
             Prop("c", Dict1("type", "boolean")),
             Prop("d", Dict2("type", "boolean", "required", TRUE))>>)

\* models with a property of a type name that type_from_name does not map:
\* the property required or optional, first or after a supported one
WidgetSchemas ==
    {Schema(<<Prop("w", Put(Dict1("type", "widget"), "required", req))>>) : req \in BOOLEAN}
    \cup {Schema(<<Prop("s", Dict2("type", "string", "required", TRUE)),
                   Prop("w", Put(Dict1("type", "widget"), "required", req))>>) :
              req \in BOOLEAN}

\* one model with an array of a primitive type
PrimitiveItems == {"integer", "float", "string", "boolean"}
BagSchema(type) ==
    Schema(<<Prop("xs", Dict2("type", "array", "items", Dict1("type", type)))>>)

\* what the caller sets out to compile
Scenarios ==
    {<<Def("Num", NumSchema(type, b))>> : type \in {"integer", "float"}, b \in Bounds}
    \cup {<<Def("Tag", PatternSchema(pattern))>> : pattern \in Patterns}
    \cup {<<Def("Color", EnumSchema)>>, <<Def("Plain", PlainSchema)>>,
          <<Def("Node", NodeSchema)>>,
          <<Def("Set", SetSchema), Def("Exercise", ExerciseSchema)>>}
    \cup {<<Def("Gadget", schema)>> : schema \in WidgetSchemas}
    \cup {<<Def("Bag", BagSchema(type))>> : type \in PrimitiveItems}

\* the values the caller assigns
ScalarValues ==
    {PyInt(i) : i \in -1..3} \cup {PyFloat(x) : x \in {0, 1, 3, 4, 5}}
    \cup {PyBool(TRUE), None}
    \cup {PyStr(x) : x \in {<<"a", "b">>, <<"a", "b", "c">>, <<"x", "a", "b">>}}
Elements == {InstObj(i) : i \in DOMAIN insts} \cup {PyInt(1)}
PyList(x) == [k |-> "pylist", v |-> x]
ListValues ==
    {PyList(<<>>)} \cup {PyList(<<x>>) : x \in Elements}
    \cup {PyList(<<x, y>>) : x \in Elements, y \in Elements}
Values == ScalarValues \cup ListValues

\* the keyword arguments the caller constructs instances with
CtorValues ==
    {PyInt(1), PyFloat(3), PyStr(<<"a", "b">>)}
    \cup {PyList(<<x>>) : x \in Elements}
CtorArgs(c) ==
    UNION {[names -> CtorValues] : names \in SUBSET Range(c.attrs)}

\* a name no schema declares
Undeclared == "note"

InitField ==
    /\ subclasses = <<>>
    /\ refs = <<>>
    /\ REGISTRY = <<>>
    /\ lists = <<>>
    /\ insts = <<>>
    /\ pc = "idle"
    /\ spec = EmptyDict
    /\ raised = "None"
    /\ log = <<>>
    /\ loads = 0
    /\ ops = 0
    /\ todo \in Scenarios
    /\ last = NoOp

\* the Model Types the caller holds: generate_defintion_class returned them,
\* so every field of theirs has its descriptor installed
Compiled ==
    {cid \in DOMAIN subclasses :
        \A n \in Range(subclasses[cid].attrs) : subclasses[cid].cdict[n].k = "descr"}

\* generate_defintion_class(name, **schema) for the next definition
Compile ==
    /\ pc # "load_refs"
    /\ todo # <<>>
    /\ LET d == Head(todo)
           r == generate_defintion_class(HeapNow, d.name, d.schema)
       IN  /\ SetHeap(r.heap)
           /\ last' = [op |-> "compile", name |-> d.name, schema |-> d.schema,
                       exc |-> r.exc, ret |-> r.ret]
    /\ todo' = Tail(todo)
    /\ UNCHANGED <<pc, spec, raised, log, loads, ops>>

\* `cls(*pos, **kw)`
New(cid, pos, kw) ==
    /\ pc # "load_refs"
    /\ ops < MaxCalls
    /\ Len(insts) < MaxInsts
    /\ LET r == Model_call(HeapNow, cid, pos, kw) IN
       /\ SetHeap(r.heap)
       /\ last' = [op |-> "new", cls |-> cid, pos |-> pos, kw |-> kw, exc |-> r.exc,
                   ret |-> r.ret, before |-> Len(insts)]
    /\ ops' = ops + 1
    /\ UNCHANGED <<pc, spec, raised, log, loads, todo>>

\* an assignment to an array field extends a list: the bound on a list's
\* length applies to it as it does to extend
AssignFits(iid, name, value) ==
    LET cdict == subclasses[insts[iid].cls].cdict
        val == Descriptor_get(cdict[name].v, insts[iid])
    IN  (name \in DOMAIN cdict /\ cdict[name].v.cls = "Array" /\ val.k = "list"
            /\ value.k = "pylist")
            => Len(lists[val.v].items) + Len(value.v) <= MaxLen

\* `inst.<name> = value`
Assign(iid, name, value) ==
    /\ pc # "load_refs"
    /\ ops < MaxCalls
    /\ AssignFits(iid, name, value)
    /\ LET r == instance_setattr(HeapNow, iid, name, value) IN
       /\ SetHeap(r.heap)
       /\ last' = [op |-> "assign", iid |-> iid, name |-> name, value |-> value,
                   exc |-> r.exc]
    /\ ops' = ops + 1
    /\ UNCHANGED <<pc, spec, raised, log, loads, todo>>

\* the record kept of a call on list lid
ListOp(op, lid, index, value, r) ==
    [op |-> op, lid |-> lid, index |-> index, value |-> value, exc |-> r.exc,
     before |-> lists[lid].items]

\* `lst.append(x)`
ListAppend(lid, x) ==
    /\ pc # "load_refs"
    /\ ops < MaxCalls
    /\ Len(lists[lid].items) < MaxLen
    /\ LET r == TypedList_append(HeapNow, lid, x) IN
       SetHeap(r.heap) /\ last' = ListOp("append", lid, 0, x, r)
    /\ ops' = ops + 1
    /\ UNCHANGED <<pc, spec, raised, log, loads, todo>>

\* `lst.insert(index, x)`
ListInsert(lid, index, x) ==
    /\ pc # "load_refs"
    /\ ops < MaxCalls
    /\ Len(lists[lid].items) < MaxLen
    /\ LET r == TypedList_insert(HeapNow, lid, index, x) IN
       SetHeap(r.heap) /\ last' = ListOp("insert", lid, index, x, r)
    /\ ops' = ops + 1
    /\ UNCHANGED <<pc, spec, raised, log, loads, todo>>

\* `lst.extend(value)`
ListExtend(lid, value) ==
    /\ pc # "load_refs"
    /\ ops < MaxCalls
    /\ Len(lists[lid].items) + Len(value.v) <= MaxLen
    /\ LET r == TypedList_extend(HeapNow, lid, value) IN
       SetHeap(r.heap) /\ last' = ListOp("extend", lid, 0, value, r)
    /\ ops' = ops + 1
    /\ UNCHANGED <<pc, spec, raised, log, loads, todo>>

NextField ==
    \/ Compile
    \/ load_refs_start
    \/ load_refs_iter
    \/ load_refs_exit
    \/ \E cid \in Compiled : \E kw \in CtorArgs(subclasses[cid]) : New(cid, <<>>, kw)
    \/ \E iid \in DOMAIN insts : \E name \in Range(subclasses[insts[iid].cls].attrs) :
          \E value \in Values : Assign(iid, name, value)
    \/ \E iid \in DOMAIN insts : Assign(iid, Undeclared, PyInt(1))
    \/ \E lid \in DOMAIN lists, x \in Elements : ListAppend(lid, x)
    \/ \E lid \in DOMAIN lists, x \in Elements, index \in {-1, 0, 1} : ListInsert(lid, index, x)
    \/ \E lid \in DOMAIN lists, value \in ListValues : ListExtend(lid, value)

SpecField == InitField /\ [][NextField]_vars

----------------------------------------------------------------------------
(* A caller that compiles one model and then only constructs instances of
   it, with positional and keyword arguments. *)

\* the examples a Set schema may declare: none, two valid ones, one that
\* breaks the minimum of weight after a valid one, one without reps
SetArgs(reps, weight) == Dict2("reps", PyInt(reps), "weight", PyInt(weight))
ExampleLists ==
    {<<>>, <<SetArgs(1, 1), SetArgs(0, 1)>>, <<SetArgs(1, 1), SetArgs(1, 0)>>,
     <<Dict1("weight", PyInt(1))>>}
CtorScenarios ==
    {<<Def("Set", SetSchema)>>, <<Def("Mixed", MixedSchema)>>}
    \cup {<<Def("Set", Put(SetSchema, "examples", examples))>> : examples \in ExampleLists}

\* the arguments the caller constructs instances with
CtorScalars == {PyInt(-1), PyInt(0), PyInt(1), PyStr(<<"a", "b">>), PyBool(TRUE)}
\* at most two keyword arguments in one call
KwArgs(c) ==
    UNION {[names -> CtorScalars] :
               names \in {ns \in SUBSET Range(c.attrs) : Cardinality(ns) <= 2}}
PosArgs ==
    {<<PyStr(<<"a", "b">>)>>, <<PyStr(<<"a", "b">>), PyBool(TRUE)>>,
     <<PyBool(TRUE), PyStr(<<"a", "b">>)>>,
     <<PyStr(<<"a", "b">>), PyBool(TRUE), PyInt(1)>>,
     <<PyStr(<<"a", "b">>), PyBool(TRUE), PyInt(1), PyBool(TRUE)>>,
     <<PyStr(<<"a", "b">>), PyBool(TRUE), PyBool(TRUE), PyInt(1)>>,
     <<PyStr(<<"a", "b">>), PyBool(TRUE), PyInt(1), PyBool(TRUE), PyInt(1)>>,
     <<PyInt(1), PyInt(1)>>}

InitCtor ==
    /\ subclasses = <<>> /\ refs = <<>> /\ REGISTRY = <<>>
    /\ lists = <<>> /\ insts = <<>>
    /\ pc = "idle" /\ spec = EmptyDict /\ raised = "None" /\ log = <<>>
    /\ loads = 0 /\ ops = 0
    /\ todo \in CtorScenarios
    /\ last = NoOp

\* `cls.generate_examples()`
Examples(cid) ==
    /\ pc # "load_refs"
    /\ ops < MaxCalls
    /\ Len(insts) + Len(subclasses[cid].examples) <= MaxInsts
    /\ LET r == generate_examples(HeapNow, cid) IN
       /\ SetHeap(r.heap)
       /\ last' = [op |-> "examples", cls |-> cid, exc |-> r.exc, ret |-> r.ret,
                   before |-> Len(insts)]
    /\ ops' = ops + 1
    /\ UNCHANGED <<pc, spec, raised, log, loads, todo>>

NextCtor ==
    \/ Compile
    \/ \E cid \in Compiled : Examples(cid)
    \/ \E cid \in Compiled : \E kw \in KwArgs(subclasses[cid]) : New(cid, <<>>, kw)
    \/ \E cid \in Compiled : \E pos \in PosArgs : New(cid, pos, EmptyDict)

SpecCtor == InitCtor /\ [][NextCtor]_vars

----------------------------------------------------------------------------
(* A caller that loads documents, one after the other in one process, and
   between loads constructs instances of the compiled models and appends
   them to the array fields. *)

LoadDocs == {Dict1("definitions", ds) : ds \in DefinitionSections}

\* the keyword arguments of the caller: none, or those of a valid Set
LoadKw == {EmptyDict, Dict2("reps", PyInt(1), "weight", PyInt(1))}

NextLoad ==
    \/ \E doc \in LoadDocs : SwaggerSpec_init(doc)
    \/ load_refs_iter
    \/ load_refs_exit
    \/ \E cid \in Compiled : \E kw \in LoadKw : New(cid, <<>>, kw)
    \/ \E lid \in DOMAIN lists, x \in Elements : ListAppend(lid, x)

SpecLoad == Init /\ [][NextLoad]_vars

----------------------------------------------------------------------------
(* models.py, objects.py, parameters.py: SpecObjectBase.build on the Spec
   Object types Contact, License, Info and Parameter.  A type is a record:
   its class name, what it derives from (str, ParameterLocation's str with
   a checked __init__, a SpecObjectBase without __init__ of its own, or
   Parameter), its KEY and REQUIRED and its __attrs__.  A raw mapping is a
   function from keys to None, strings and mappings. *)

PyDict(d) == [k |-> "dict", v |-> d]
SpecObject(cls, dict) == [k |-> "object", v |-> [cls |-> cls, dict |-> dict]]

\* string_field(name, key, required): type(name, (str,), dict(KEY=key, ...))
spec_string_field(name, key, required) ==
    [name |-> name, base |-> "str", KEY |-> key, REQUIRED |-> required, attrs |-> <<>>]

ParameterLocation ==
    [name |-> "ParameterLocation", base |-> "location", KEY |-> "in", REQUIRED |-> TRUE,
     attrs |-> <<>>]
ValidLocations == {<<"query">>, <<"header">>, <<"path">>, <<"formData">>, <<"body">>}

Contact ==
    [name |-> "Contact", base |-> "object", KEY |-> "contact", REQUIRED |-> FALSE,
     attrs |-> <<spec_string_field("Name", "name", FALSE),
                 spec_string_field("URL", "url", FALSE),
                 spec_string_field("EMail", "email", FALSE)>>]
License ==
    [name |-> "License", base |-> "object", KEY |-> "license", REQUIRED |-> FALSE,
     attrs |-> <<spec_string_field("Name", "name", TRUE),
                 spec_string_field("URL", "url", FALSE)>>]
Info ==
    [name |-> "Info", base |-> "object", KEY |-> "info", REQUIRED |-> TRUE,
     attrs |-> <<spec_string_field("Title", "title", TRUE),
                 spec_string_field("Description", "description", FALSE),
                 spec_string_field("TOS", "terms_of_service", FALSE),
                 spec_string_field("Version", "version", TRUE),
                 Contact, License>>]
OptionalParameterFields ==
    <<<<"Description", "description">>, <<"Format", "format">>,
      <<"AllowEmpty", "allow_empty">>, <<"Items", "items">>,
      <<"CollectionFormat", "collection_format">>, <<"Default", "default">>,
      <<"Maximum", "maximum">>, <<"ExclusiveMaximum", "exclusive_maximum">>,
      <<"Minimum", "minimum">>, <<"ExclusiveMinimum", "exclusive_minimum">>,
      <<"MaxLength", "max_length">>, <<"MinLength", "min_length">>,
      <<"Pattern", "pattern">>, <<"MaxItems", "max_items">>,
      <<"MinItems", "min_items">>, <<"UniqueItems", "unique_items">>,
      <<"Enum", "enum">>, <<"MultipleOf", "multiple_of">>>>
Parameter ==
    [name |-> "Parameter", base |-> "parameter", KEY |-> "None", REQUIRED |-> FALSE,
     attrs |-> <<ParameterLocation,
                 spec_string_field("Name", "name", TRUE),
                 spec_string_field("Required", "required", TRUE),
                 spec_string_field("Type", "type", TRUE)>>
               \o [i \in DOMAIN OptionalParameterFields |->
                      spec_string_field(OptionalParameterFields[i][1],
                                        OptionalParameterFields[i][2], FALSE)]]

\* `typ_key = typ.KEY if typ.KEY != '$ref' else 'ref'`
typ_key(typ) == IF typ.KEY = "$ref" THEN "ref" ELSE typ.KEY

\* the three calls build makes: typ(), typ(value), typ(**value)
NoArg == [form |-> "none", v |-> None]
PosArg(value) == [form |-> "pos", v |-> value]
KwArg(value) == [form |-> "kw", v |-> value]

\* SpecObjectBase.build and the call of a type, `typ(...)`: a str subclass
\* is str's constructor; ParameterLocation takes exactly one positional
\* location and checks it; a SpecObjectBase subclass takes keyword
\* arguments only and builds itself from them; Parameter takes an optional
\* positional key besides
RECURSIVE SpecObjectBase_build(_, _, _, _)
RECURSIVE construct(_, _)
build_result(typ, r, extra) ==
    IF r.exc # "None" THEN r ELSE Val("None", SpecObject(typ.name, extra @@ r.ret))
build_set(typ, spec_data, i, acc, value) ==
    IF value.exc # "None" THEN Val(value.exc, acc)
    ELSE SpecObjectBase_build(typ, spec_data, i + 1,
                              Put(acc, typ_key(typ.attrs[i]), value.ret))
SpecObjectBase_build(typ, spec_data, i, acc) ==
    IF i > Len(typ.attrs) THEN Val("None", acc)
    ELSE LET t == typ.attrs[i] IN
         IF ~t.REQUIRED /\ t.KEY \notin DOMAIN spec_data
         THEN SpecObjectBase_build(typ, spec_data, i + 1, acc)
         ELSE build_set(typ, spec_data, i, acc,
                        construct(t, LET value == Get(spec_data, t.KEY, None) IN
                                     IF value = None THEN NoArg
                                     ELSE IF value.k = "dict" THEN KwArg(value.v)
                                     ELSE PosArg(value)))
construct(typ, arg) ==
    CASE typ.base = "str" ->
            IF arg.form = "none" THEN Val("None", PyStr(<<>>))
            ELSE IF arg.form = "pos" THEN Val("None", arg.v)
            ELSE IF DOMAIN arg.v = {} THEN Val("None", PyStr(<<>>))
            ELSE Val("TypeError", None)
      [] typ.base = "location" ->
            IF arg.form # "pos" THEN Val("TypeError", None)
            ELSE IF arg.v.v \notin ValidLocations THEN Val("ValueError", None)
            ELSE Val("None", arg.v)
      [] typ.base = "object" ->
            IF arg.form = "pos" THEN Val("TypeError", None)
            ELSE build_result(typ,
                              SpecObjectBase_build(typ, IF arg.form = "kw" THEN arg.v
                                                        ELSE EmptyDict, 1, EmptyDict),
                              EmptyDict)
      [] OTHER ->
            build_result(typ,
                         SpecObjectBase_build(typ, IF arg.form = "kw" THEN arg.v
                                                   ELSE EmptyDict, 1, EmptyDict),
                         Dict1("_key", IF arg.form = "pos" THEN arg.v ELSE None))

\* the raw mappings the caller builds Spec Objects from
Text == PyStr(<<"t">>)
Mappings(keys, values) == UNION {[ks -> values] : ks \in SUBSET keys}
LicenseData == Mappings({"name", "url"}, {Text})
ContactData == Mappings({"name"}, {Text})
InfoData ==
    {flat @@ nested :
        flat \in Mappings({"title", "version", "description"}, {Text}),
        nested \in Mappings({"license"}, {None} \cup {PyDict(d) : d \in LicenseData})
                   \cup Mappings({"contact"}, {PyDict(d) : d \in ContactData})}
ParameterData ==
    {loc @@ flat :
        loc \in Mappings({"in"}, {PyStr(<<"query">>), PyStr(<<"body">>), PyStr(<<"bogus">>)}),
        flat \in Mappings({"name", "required", "type", "description"}, {Text})}
BuildInputs ==
    {[typ |-> Info, data |-> d] : d \in InfoData}
    \cup {[typ |-> License, data |-> d] : d \in LicenseData}
    \cup {[typ |-> Contact, data |-> d] : d \in ContactData}
    \cup {[typ |-> Parameter, data |-> d] : d \in ParameterData}

\* `typ(**data)`
Build(typ, data) ==
    /\ ops < MaxCalls
    /\ LET r == construct(typ, KwArg(data)) IN
       last' = [op |-> "build", typ |-> typ, data |-> data, exc |-> r.exc, ret |-> r.ret]
    /\ ops' = ops + 1
    /\ UNCHANGED <<subclasses, refs, REGISTRY, lists, insts, pc, spec, raised, log,
                   loads, todo>>

NextBuild == \E input \in BuildInputs : Build(input.typ, input.data)

SpecBuild == Init /\ [][NextBuild]_vars

----------------------------------------------------------------------------
(* the claims *)

\* the document of the current construction holds a response whose schema
\* points at a definition that no document defines
HasMissingRef ==
    /\ "_spec" \in DOMAIN spec
    /\ \E i \in DOMAIN spec["_spec"]["responses"] :
          spec["_spec"]["responses"][i].ref = P_Missing

\* the reference is unresolved and prints as '<LazyRef: pointer>'
Unresolved(rid) ==
    /\ ~is_loaded(HeapNow, rid)
    /\ refs[rid]["__object__"].k = "None"
    /\ LazyRef_str(HeapNow, rid) =
           Val("None", [k |-> "placeholder", v |-> refs[rid]["reference"]])

\* C1: the construction of a SwaggerSpec from a document holding a
\* Reference to #/definitions/<name>, where no Model Type has that name,
\* ends without raising, and that Reference is then unresolved (flag false,
\* no target) and prints as the placeholder holding its pointer.
C1_MissingDefinitionLoadCompletes ==
    (pc \in {"done", "raised"} /\ HasMissingRef) =>
        /\ pc = "done"
        /\ raised = "None"
        /\ \A rid \in DOMAIN refs :
              refs[rid]["reference"] = PyStr(P_Missing) => Unresolved(rid)

\* C2: whenever load_refs has finished, by returning or by raising, the
\* registry is empty, so nothing is pending when a later load starts.
C2_RegistryEmptyAfterPass ==
    pc \in {"done", "raised"} => REGISTRY = <<>>

\* C3: `ref.load()` on a Reference that is already resolved raises nothing
\* and returns the target the Reference holds.
C3_ReloadReturnsTarget ==
    (last.op = "load" /\ last.loaded) =>
        /\ last.exc = "None"
        /\ "__object__" \in DOMAIN refs[last.rid]
        /\ last.ret = refs[last.rid]["__object__"]

\* the names the specification calls introspection names: the pointer, the
\* resolved flag and the target handle
IntrospectionNames == {"reference", "_proxy_loaded", "__object__"}

\* C4 as stated: on a resolved Reference, a read of an introspection name
\* (the pointer included) is answered from the Reference's own state.
C4_IntrospectionReadsOwnState ==
    (last.op = "get" /\ last.loaded /\ last.name \in IntrospectionNames) =>
        Val(last.exc, last.ret) = object_getattribute(refs[last.rid], last.name)

\* the names the code keeps on the Reference itself: for writes and
\* deletes, and (with __str__ added) for reads
C4_KeptNames ==
    {"__dict__", "_proxy_loaded", "__unproxy__", "__object__", "_local_lookups",
     "__proxy_delattr__", "__proxy_setattr__", "__proxy_getattribute__"}
C4_KeptReadNames == C4_KeptNames \cup {"__str__"}

\* C4, amended: on a resolved Reference, a read, write or delete of a kept
\* name acts on the Reference's own attributes and leaves the target alone;
\* of any other name, the pointer `reference` included, acts on the target
\* (when the Reference holds a Model Type) and leaves the Reference alone.
C4_Forwarding ==
    [][(ops' = ops + 1 /\ last'.op \in {"get", "set", "del"}
            /\ is_loaded(HeapNow, last'.rid)) =>
        LET rid == last'.rid
            name == last'.name
            own == refs[rid]
            hasT == "__object__" \in DOMAIN own /\ own["__object__"].k = "class"
            t == own["__object__"].v
            out == Val(last'.exc, last'.ret)
        IN  CASE last'.op = "get" ->
                    /\ refs' = refs /\ subclasses' = subclasses
                    /\ IF name \in C4_KeptReadNames
                       THEN out = object_getattribute(own, name)
                       ELSE hasT => out = target_getattr(HeapNow, own["__object__"], name)
              [] last'.op = "set" ->
                    IF name \in C4_KeptNames
                    THEN /\ refs' = [refs EXCEPT ![rid] = Put(@, name, last'.value)]
                         /\ subclasses' = subclasses
                    ELSE /\ refs' = refs
                         /\ hasT => subclasses' =
                               [subclasses EXCEPT ![t].cdict = Put(@, name, last'.value)]
              [] last'.op = "del" ->
                    IF name \in C4_KeptNames
                    THEN /\ refs' = [refs EXCEPT ![rid] = Remove(@, name)]
                         /\ subclasses' = subclasses
                    ELSE /\ refs' = refs
                         /\ hasT => subclasses' =
                               [subclasses EXCEPT ![t].cdict = Remove(@, name)]
    ]_vars

\* a write of the pointer name through a resolved Reference has landed in
\* the namespace of the target Model Type
C4_Witness ==
    /\ last.op = "set" /\ last.loaded /\ last.name = "reference" /\ last.exc = "None"
    /\ refs[last.rid]["__object__"].k = "class"
    /\ "reference" \in DOMAIN subclasses[refs[last.rid]["__object__"].v].cdict
    /\ refs[last.rid]["reference"].k = "str"

\* the names under which a mapping section kept as [_key, value] entries
\* holds something
SectionKeys(section) == {section[i]._key : i \in DOMAIN section}

\* C5: merge(document_b) on a loaded root document succeeds, and the root's
\* definitions then hold an entry under every name document_b defines.
C5_MergeSucceeds ==
    last.op = "merge" =>
        /\ last.exc = "None"
        /\ {last.data["definitions"][i].name : i \in DOMAIN last.data["definitions"]}
               \subseteq SectionKeys(spec["definitions"])

\* the descriptor behind field name of instance iid
DescriptorOf(iid, name) == subclasses[insts[iid].cls].cdict[name].v

\* the last call assigned to a field compiled with bounds
AssignedSized ==
    /\ last.op = "assign"
    /\ last.name # Undeclared
    /\ DescriptorOf(last.iid, last.name).cls \in {"SizedInteger", "SizedFloat"}

\* the value is of the type the field declares (a Python bool is an int)
OfDeclaredType(D, value) ==
    IF D.cls = "SizedInteger" THEN value.k \in {"int", "bool"} ELSE value.k = "float"

\* the value lies on or outside a bound of the field
OnOrBeyondBound(D, value) ==
    \/ D.minimum.k # "None" /\ Halves(value) <= Halves(D.minimum)
    \/ D.maximum.k # "None" /\ Halves(value) >= Halves(D.maximum)

\* the class compiled last has, for each numeric property declared with a
\* bound, a sized descriptor carrying the declared bounds
BoundsCompiled ==
    LET properties == last.schema["properties"]
        cdict == Last(subclasses).cdict
    IN  \A i \in DOMAIN properties :
            LET f == properties[i].field IN
            (f["type"] \in {"integer", "float"}
                    /\ ("minimum" \in DOMAIN f \/ "maximum" \in DOMAIN f)) =>
                /\ cdict[properties[i].name].k = "descr"
                /\ cdict[properties[i].name].v.cls =
                       (IF f["type"] = "integer" THEN "SizedInteger" ELSE "SizedFloat")
                /\ cdict[properties[i].name].v.minimum = Get(f, "minimum", None)
                /\ cdict[properties[i].name].v.maximum = Get(f, "maximum", None)

WholeMatch(pattern, value) == re_match_at(pattern \o <<"$">>, 1, value, 1)

\* C7: an assignment of a string to a pattern-checked field succeeds if and
\* only if the whole string matches the pattern.
C7_WholeStringMatch ==
    (last.op = "assign" /\ last.name # Undeclared
            /\ DescriptorOf(last.iid, last.name).cls = "Regex"
            /\ last.value.k = "str") =>
        (last.exc = "None"
            <=> WholeMatch(DescriptorOf(last.iid, last.name).pattern.v, last.value.v))

\* C8: a schema with a field that declares an enum compiles to a Model Type.
C8_EnumCompiles ==
    (last.op = "compile"
            /\ \E i \in DOMAIN last.schema["properties"] :
                  "enum" \in DOMAIN last.schema["properties"][i].field) =>
        last.exc = "None"

\* x is an instance of the element type of list lid: the list's reference
\* is resolved to a Model Type and x was made from it
IsElement(lid, x) ==
    /\ lists[lid].ref.k = "ref"
    /\ refs[lists[lid].ref.v]["__object__"].k = "class"
    /\ x.k = "inst"
    /\ insts[x.v].cls = refs[lists[lid].ref.v]["__object__"].v

\* the elements the last call on a list offered
Offered == IF last.op = "extend" THEN Range(last.value.v) ELSE {last.value}

\* C9: append, insert and extend raise when an offered element is not an
\* instance of the element type; a call that raised left the list as it
\* was, whatever valid elements the batch held; and every element of every
\* list is an instance of its element type.
C9_TypedListRejects ==
    /\ last.op \in {"append", "insert", "extend"} =>
           /\ (\E x \in Offered : ~IsElement(last.lid, x)) => last.exc # "None"
           /\ last.exc # "None" => lists[last.lid].items = last.before
    /\ \A lid \in DOMAIN lists :
           \A i \in DOMAIN lists[lid].items : IsElement(lid, lists[lid].items[i])

\* extend was offered a valid element followed by an invalid one, raised,
\* and the list, not empty, is as it was
C9_Witness ==
    /\ last.op = "extend" /\ last.exc = "TypeError"
    /\ Len(last.value.v) = 2
    /\ IsElement(last.lid, last.value.v[1])
    /\ ~IsElement(last.lid, last.value.v[2])
    /\ last.before # <<>>
    /\ lists[last.lid].items = last.before

\* what instance iid reads for field name: the items, for a list
FieldRead(iid, name) ==
    LET r == instance_getattr(HeapNow, iid, name) IN
    IF r.ret.k = "list" THEN lists[r.ret.v].items ELSE r.ret

\* C10: an assignment to a field of one instance changes what no other
\* instance of the same Model Type reads for any of its fields.
C10_AssignmentIsPerInstance ==
    [][(ops' = ops + 1 /\ last'.op = "assign") =>
        \A j \in DOMAIN insts :
            (j # last'.iid /\ insts[j].cls = insts[last'.iid].cls) =>
                \A name \in Range(subclasses[insts[j].cls].attrs) :
                    FieldRead(j, name)' = FieldRead(j, name)
    ]_vars

\* the last call constructed an instance of the model named name
Constructed(name) == last.op = "new" /\ subclasses[last.cls].name = name

\* what the last construction supplied for the field at position i of the
\* signature named name: positionally, by keyword, or not at all
Absent == [k |-> "absent", v |-> 0]
Supplied(i, name) ==
    IF i <= Len(last.pos) THEN last.pos[i]
    ELSE IF name \in DOMAIN last.kw THEN last.kw[name]
    ELSE Absent

\* a Python int (a bool is one)
IsInt(value) == value.k \in {"int", "bool"}

\* the last construction returned nothing and made no instance
NoInstance == last.ret = None /\ Len(insts) = last.before

DocumentModels(name) ==
    {spec["definitions"][i].value.v : i \in
        {j \in DOMAIN spec["definitions"] : spec["definitions"][j]._key = name}}

\* the Typed Sequence behind the array field sets of Model Type cid
SetsOf(cid) == subclasses[cid].cdict["sets"].v.default.v

\* C12: after a full load of a document that defines Set and Exercise (in
\* either order), an append to the Typed Sequence of Exercise.sets succeeds
\* if and only if the element is an instance of the document's Set.
C12_SequenceAcceptsOnlySet ==
    (/\ pc = "done"
     /\ last.op = "append"
     /\ DocumentModels("Set") # {}
     /\ \E e \in DocumentModels("Exercise") : SetsOf(e) = last.lid) =>
        (last.exc = "None"
            <=> /\ last.value.k = "inst"
                /\ insts[last.value.v].cls \in DocumentModels("Set"))

\* the type names with a runtime mapping
SupportedTypes ==
    {"integer", "long", "float", "double", "string", "byte", "binary", "boolean", "array"}

\* the properties of the schema compiled last that declare a type name
\* without a runtime mapping
Unmapped ==
    {i \in DOMAIN last.schema["properties"] :
        /\ "type" \in DOMAIN last.schema["properties"][i].field
        /\ last.schema["properties"][i].field["type"] \notin SupportedTypes}

\* every other property of the schema compiled last is a plain scalar:
\* it declares a type, no enum, and is not an array
OthersScalar ==
    \A i \in DOMAIN last.schema["properties"] \ Unmapped :
        LET f == last.schema["properties"][i].field IN
        "type" \in DOMAIN f /\ "enum" \notin DOMAIN f /\ f["type"] # "array"

AbsentKeys == {i \in DOMAIN last.typ.attrs : last.typ.attrs[i].KEY \notin DOMAIN last.data}

\* every value of the raw mapping built last is a string, and a location
\* is a valid one
PlainData ==
    \A key \in DOMAIN last.data :
        /\ last.data[key].k = "str"
        /\ key = "in" => last.data[key].v \in ValidLocations

\* C14: build of a Spec Object type from a raw mapping whose values are
\* all well formed does not raise, whatever declared keys are absent, and
\* after a build every absent declared key, required or optional, has left
\* its attribute unset.
C14_AbsentKeysLeftUnset ==
    last.op = "build" =>
        /\ PlainData => last.exc = "None"
        /\ last.exc = "None" =>
               \A i \in AbsentKeys : last.typ.attrs[i].KEY \notin DOMAIN last.ret.v.dict

\* the sequence of reference ids ascends / descends strictly
Ascending(ids) == \A i, j \in DOMAIN ids : i < j => ids[i] < ids[j]
Descending(ids) == \A i, j \in DOMAIN ids : i < j => ids[i] > ids[j]

\* C15: the registry holds the References in creation order; a resolution
\* pass attempts them last registered first, none twice; and when the pass
\* of the first load of a process has ended, every Reference created was
\* attempted.
C15_PassAttemptsEachOnce ==
    /\ Ascending(REGISTRY)
    /\ Descending(log)
    /\ (loads = 1 /\ pc \in {"done", "raised"}) => Range(log) = DOMAIN refs

\* the pointer of reference rid is remote (http...) or relative (no #)
Unsupported(rid) == refs[rid]["reference"] \in {PyStr(P_Remote), PyStr(P_Relative)}

\* C16: a Reference with a remote or relative pointer never holds a
\* target, and when a resolution pass has attempted one, the pass goes on:
\* nothing was raised out of it.
C16_UnsupportedPointerIsSkipped ==
    /\ \A rid \in DOMAIN refs :
           Unsupported(rid) => refs[rid]["__object__"] = None /\ ~is_loaded(HeapNow, rid)
    /\ (log # <<>> /\ Unsupported(Last(log))) =>
           pc \in {"load_refs", "done"} /\ raised = "None"

\* the names of the properties of a schema that declare (do not declare)
\* required: true, in declaration order
NamesOf(properties) == [i \in DOMAIN properties |-> properties[i].name]
DeclaredRequired(p) == "required" \in DOMAIN p.field /\ p.field["required"] = TRUE
DeclaredOptional(p) == ~DeclaredRequired(p)
RequiredFirst(schema) ==
    NamesOf(SelectSeq(schema["properties"], DeclaredRequired))
        \o NamesOf(SelectSeq(schema["properties"], DeclaredOptional))
NumRequired(schema) == Len(SelectSeq(schema["properties"], DeclaredRequired))

\* the schema that the model named name was compiled from
SchemaOf(name) == (CHOOSE t \in CtorScenarios : t[1].name = name)[1].schema

\* C17: the field list of a compiled Model Type is its required
\* properties in declaration order followed by its optional properties in
\* declaration order; the constructor binds positional arguments to the
\* fields in that order and keyword arguments by name, fails when a
\* required field gets no argument or there are more positional arguments
\* than fields, and the instance of a successful call reads each argument
\* under the field it was bound to.
C17_RequiredThenOptional ==
    /\ \A cid \in DOMAIN subclasses :
           subclasses[cid].attrs = RequiredFirst(SchemaOf(subclasses[cid].name))
    /\ last.op = "new" =>
           LET schema == SchemaOf(subclasses[last.cls].name)
               order == RequiredFirst(schema)
           IN  /\ Len(last.pos) > Len(order) => last.exc = "TypeError"
               /\ (\E i \in 1..NumRequired(schema) : Supplied(i, order[i]) = Absent) =>
                      last.exc = "TypeError"
               /\ last.exc = "None" =>
                      \A i \in DOMAIN order :
                          Supplied(i, order[i]) # Absent =>
                              instance_getattr(HeapNow, Len(insts), order[i])
                                  = Val("None", Supplied(i, order[i]))

\* Mixed('ab', True, 1, True) succeeded: the instance reads b, d, a, c
C17_Witness ==
    /\ Constructed("Mixed")
    /\ Len(last.pos) = 4
    /\ last.exc = "None"
    /\ instance_getattr(HeapNow, Len(insts), "b") = Val("None", PyStr(<<"a", "b">>))
    /\ instance_getattr(HeapNow, Len(insts), "d") = Val("None", PyBool(TRUE))
    /\ instance_getattr(HeapNow, Len(insts), "a") = Val("None", PyInt(1))
    /\ instance_getattr(HeapNow, Len(insts), "c") = Val("None", PyBool(TRUE))

\* the names under which instance iid may store something: one private
\* slot per field of its Model Type
FieldSlots(iid) == {private(name) : name \in Range(subclasses[insts[iid].cls].attrs)}

\* C18: an assignment to a name that is not a field of the instance's
\* Model Type fails, and the names an instance stores something under
\* never go beyond the fields fixed at compile time.
C18_FieldNamesFixed ==
    /\ (last.op = "assign" /\ last.name = Undeclared) => last.exc # "None"
    /\ \A iid \in DOMAIN insts : DOMAIN insts[iid].dict \subseteq FieldSlots(iid)

\* the zero-value of a declared scalar type
ZeroValue(type) ==
    CASE type = "integer" -> PyInt(0)
      [] type = "float" -> PyFloat(0)
      [] type = "string" -> PyStr(<<>>)
      [] type = "boolean" -> PyBool(FALSE)

\* what an instance of the class compiled last, with nothing assigned,
\* reads for the field named name
UnassignedRead(name) ==
    Descriptor_get(Last(subclasses).cdict[name].v,
                   [cls |-> Len(subclasses), dict |-> EmptyDict])

\* property p, declared without default, reads as its type's zero-value
\* on an instance of the class compiled last where it was never assigned
ReadsZeroValue(p) ==
    IF p.field["type"] = "array"
    THEN /\ UnassignedRead(p.name).k = "list"
         /\ lists[UnassignedRead(p.name).v].items = <<>>
    ELSE UnassignedRead(p.name) = ZeroValue(p.field["type"])

\* C19: each field compiled without an explicit default reads, on an
\* instance where it was never assigned, as the zero-value of its declared
\* type, constrained fields included.
C19_UnassignedReadsZeroValue ==
    (last.op = "compile" /\ last.exc = "None") =>
        \A i \in DOMAIN last.schema["properties"] :
            LET p == last.schema["properties"][i] IN
            "default" \notin DOMAIN p.field => ReadsZeroValue(p)

\* the properties of the schema compiled last that are arrays whose items
\* declare a primitive type
PrimitiveArrays ==
    {i \in DOMAIN last.schema["properties"] :
        LET f == last.schema["properties"][i].field IN
        /\ "type" \in DOMAIN f /\ f["type"] = "array"
        /\ "items" \in DOMAIN f /\ "type" \in DOMAIN f["items"]
        /\ f["items"]["type"] \in PrimitiveItems}

\* C20: a schema with an array field whose items declare a primitive type
\* compiles, and the field of the Model Type is an array descriptor.
C20_PrimitiveArrayCompiles ==
    (last.op = "compile" /\ PrimitiveArrays # {}) =>
        /\ last.exc = "None"
        /\ \A i \in PrimitiveArrays :
               LET entry == Last(subclasses).cdict[last.schema["properties"][i].name] IN
               entry.k = "descr" /\ entry.v.cls = "Array"

\* Model Type cid has the class-level operation generate_examples
HasGenerator(cid) == "generate_examples" \in DOMAIN subclasses[cid].cdict

\* instance iid is of the Model Type the last call was made on and reads
\* the values of example ex
ExampleBuilt(iid, ex) ==
    /\ insts[iid].cls = last.cls
    /\ \A name \in DOMAIN ex : instance_getattr(HeapNow, iid, name) = Val("None", ex[name])

\* an example of Set that its constructor accepts / that lacks the
\* required reps or breaks the minimum of weight
ValidExample(ex) ==
    /\ DOMAIN ex = {"reps", "weight"}
    /\ IsInt(ex["reps"]) /\ IsInt(ex["weight"]) /\ Halves(ex["weight"]) > 0
BrokenExample(ex) ==
    \/ "reps" \notin DOMAIN ex
    \/ "weight" \in DOMAIN ex /\ IsInt(ex["weight"]) /\ Halves(ex["weight"]) <= 0

\* C21: a Model Type has generate_examples exactly when its schema
\* declares examples; called on Set, it returns one new instance per
\* example, in example order, each reading its example's values; it fails
\* when an example lacks the required field or breaks a constraint; and a
\* Model Type compiled without examples has no such operation to call.
C21_GenerateExamples ==
    /\ (last.op = "compile" /\ last.exc = "None") =>
           /\ HasGenerator(Len(subclasses)) <=> "examples" \in DOMAIN last.schema
           /\ "examples" \in DOMAIN last.schema =>
                  Last(subclasses).examples = last.schema["examples"]
    /\ last.op = "examples" =>
           LET examples == subclasses[last.cls].examples IN
           /\ ~HasGenerator(last.cls) =>
                  last.exc = "AttributeError" /\ Len(insts) = last.before
           /\ (HasGenerator(last.cls)
                    /\ \A i \in DOMAIN examples : ValidExample(examples[i])) =>
                  /\ last.exc = "None"
                  /\ last.ret.k = "pylist"
                  /\ Len(last.ret.v) = Len(examples)
                  /\ \A i \in DOMAIN examples :
                         /\ last.ret.v[i] = InstObj(last.before + i)
                         /\ ExampleBuilt(last.before + i, examples[i])
           /\ (HasGenerator(last.cls)
                    /\ \E i \in DOMAIN examples : BrokenExample(examples[i])) =>
                  last.exc # "None" /\ last.ret = None

\* generate_examples returned two instances of Set: the first reads the
\* first example's reps, the second the second's
C21_Witness ==
    /\ last.op = "examples"
    /\ last.exc = "None"
    /\ Len(last.ret.v) = 2
    /\ instance_getattr(HeapNow, last.before + 1, "reps") = Val("None", PyInt(1))
    /\ instance_getattr(HeapNow, last.before + 2, "reps") = Val("None", PyInt(0))

\* value is valid for a property declared with the scalar type name type
ValidFor(value, type) ==
    CASE type = "integer" -> IsInt(value)
      [] type = "string" -> value.k = "str"
      [] type = "boolean" -> value.k = "bool"
      [] OTHER -> FALSE

\* the property of schema that is named name
PropertyOf(schema, name) ==
    schema["properties"][CHOOSE i \in DOMAIN schema["properties"] :
                             schema["properties"][i].name = name].field

\* the last construction supplied a valid value for every required field
\* and nothing for the optional ones
RequiredOnly ==
    LET schema == SchemaOf(subclasses[last.cls].name)
        order == RequiredFirst(schema)
    IN  /\ Len(last.pos) <= NumRequired(schema)
        /\ \A i \in DOMAIN order :
               IF i <= NumRequired(schema)
               THEN /\ Supplied(i, order[i]) # Absent
                    /\ ValidFor(Supplied(i, order[i]),
                                PropertyOf(schema, order[i])["type"])
               ELSE Supplied(i, order[i]) = Absent

\* C22: a construction that supplies valid values for exactly the
\* required fields succeeds, whatever the optional fields are constrained
\* by.
C22_RequiredOnlyConstructs ==
    (last.op = "new" /\ RequiredOnly) => last.exc = "None"

\* the fields of instance iid that hold a stored value
StoredFields(iid) ==
    {name \in Range(subclasses[insts[iid].cls].attrs) :
        private(name) \in DOMAIN insts[iid].dict}

\* value meets the type and the constraints of descriptor D: the declared
\* type, a value strictly inside the bounds, a string the pattern matches
\* as a whole, a list of instances of the element type
Satisfies(D, value) ==
    CASE D.cls \in {"SizedInteger", "SizedFloat"} ->
            isinstance(value, D.ty) /\ ~OnOrBeyondBound(D, value)
      [] D.cls = "Regex" -> value.k = "str" /\ WholeMatch(D.pattern.v, value.v)
      [] D.cls = "Array" ->
            /\ value.k = "list"
            /\ \A i \in DOMAIN lists[value.v].items :
                   IsElement(value.v, lists[value.v].items[i])
      [] OTHER -> isinstance(value, D.ty)

\* an assignment that raised left every instance and every list as it was
FailedAssignKeeps ==
    (ops' = ops + 1 /\ last'.op = "assign" /\ last'.exc # "None") =>
        insts' = insts /\ lists' = lists

\* every stored field value meets its descriptor's type and constraints
StoredValuesSatisfy ==
    \A iid \in DOMAIN insts :
        \A name \in StoredFields(iid) :
            Satisfies(DescriptorOf(iid, name), insts[iid].dict[private(name)])

\* C23: an assignment that fails its type or constraint check leaves the
\* instance's stored values, that field's and every other's, as they were
\* before the attempt, and in every reachable state each stored field
\* value satisfies its descriptor's type and constraints.
C23_FailedAssignLeavesValid ==
    [][FailedAssignKeeps]_vars /\ []StoredValuesSatisfy

\* the last call assigned a sequence to an array field whose list is lid
AssignedArray(lid) ==
    /\ last.op = "assign"
    /\ last.name # Undeclared
    /\ DescriptorOf(last.iid, last.name).cls = "Array"
    /\ last.value.k = "pylist"
    /\ Descriptor_get(DescriptorOf(last.iid, last.name), insts[last.iid]) = ListObj(lid)

\* S, offered to a list whose reference is resolved, holds only instances
\* of the element type
ValidElements(lid) == \A x \in Range(last.value.v) : IsElement(lid, x)

\* C24: assigning a sequence S of valid elements to an array field
\* succeeds and replaces the field's content: the field then reads exactly
\* the elements of S in order, as it does after S is assigned once more.
C24_ArrayAssignReplaces ==
    [][\A lid \in DOMAIN lists :
        (ops' = ops + 1 /\ (AssignedArray(lid) /\ ValidElements(lid))') =>
            /\ last'.exc = "None"
            /\ FieldRead(last.iid, last.name)' = last'.value.v
    ]_vars

\* the References made while loading the last document that point at
\* pointer: load_refs logged each of them as it took it off the registry
LoadedRefs(pointer) ==
    {log[i] : i \in {j \in DOMAIN log : refs[log[j]]["reference"] = PyStr(pointer)}}

\* C25: when a document is loaded after another one of the same process
\* that also defines the model Set, every Reference with pointer
\* #/definitions/Set made while loading it resolves to the Model Type
\* compiled from its own definition of Set, never to the earlier one.
C25_ResolvesInOwnDocument ==
    (pc = "done" /\ loads = 2) =>
        \A rid \in LoadedRefs(P_Set) :
            /\ refs[rid]["__object__"].k = "class"
            /\ refs[rid]["__object__"].v \in DocumentModels("Set")

====
